---- MODULE Spec2Model ----
(***************************************************************************)
(* A model of the umsgpack package (MicroPython MessagePack codec): the    *)
(* encoder mp_dump.py, the buffered decoder mp_load.py and the streaming   *)
(* decoders as_load.py and as_loader.py.                                   *)
(*                                                                         *)
(* Python values are tagged records [t |-> type name, v |-> payload].      *)
(* Python integers are unbounded, so an int is a sign and a magnitude, the *)
(* magnitude a big-endian sequence of base-256 digits without leading      *)
(* zeros; lengths that the code compares with 2**16 or 2**32 are           *)
(* magnitudes of the same kind.  A str is the sequence of its code points, *)
(* a bytes object the sequence of its bytes, a dict the sequence of its    *)
(* (key, value) items in iteration order.                                  *)
(***************************************************************************)
EXTENDS Integers, Sequences, FiniteSets, TLC

VARIABLES pc, obj, options, fp, ret, registry, tasks

vars == <<pc, obj, options, fp, ret, registry, tasks>>

(***************************************************************************)
(* Bounds of the model.                                                    *)
(***************************************************************************)
\* longest list / tuple / dict among the generated objects
MaxSeq == 2
\* longest byte string enumerated over the wire alphabet
MaxWire == 3

\* the longest payload _pack_ext is given
MaxExt == 17

\* the number of classes registered goes up to MaxReg
MaxReg == 2

(***************************************************************************)
(* Byte strings and unbounded integers.                                    *)
(***************************************************************************)
Zeros(n) == [i \in 1..n |-> 0]

Rep(x, n) == [i \in 1..n |-> x]

RECURSIVE Norm(_)
Norm(ds) == IF ds = <<>> THEN <<>>
            ELSE IF Head(ds) = 0 THEN Norm(Tail(ds)) ELSE ds

RECURSIVE LexLT(_, _)
LexLT(a, b) == IF a = <<>> THEN FALSE
               ELSE \/ Head(a) < Head(b)
                    \/ Head(a) = Head(b) /\ LexLT(Tail(a), Tail(b))

\* a < b for two magnitudes
BigLT(a, b) == \/ Len(a) < Len(b)
               \/ Len(a) = Len(b) /\ LexLT(a, b)

RECURSIVE NatToBig(_)
NatToBig(n) == IF n = 0 THEN <<>> ELSE NatToBig(n \div 256) \o <<n % 256>>

RECURSIVE BigToNat(_)
BigToNat(ds) == IF ds = <<>> THEN 0
                ELSE 256 * BigToNat(SubSeq(ds, 1, Len(ds) - 1)) + ds[Len(ds)]

\* the magnitude of 2 ** k
Pow2(k) == <<2 ^ (k % 8)>> \o Zeros(k \div 8)

\* ds - 1, for ds > 0
RECURSIVE BigDec(_)
BigDec(ds) == LET n == Len(ds)
              IN  IF ds[n] > 0 THEN Norm([ds EXCEPT ![n] = ds[n] - 1])
                  ELSE Norm(BigDec(SubSeq(ds, 1, n - 1)) \o <<255>>)

\* a magnitude as a big-endian field of w bytes
Pad(ds, w) == Zeros(w - Len(ds)) \o ds

Complement(bs) == [i \in 1..Len(bs) |-> 255 - bs[i]]

RECURSIVE IncBytes(_)
IncBytes(bs) == IF bs = <<>> THEN <<>>
                ELSE LET n == Len(bs)
                     IN  IF bs[n] < 255 THEN [bs EXCEPT ![n] = bs[n] + 1]
                         ELSE IncBytes(SubSeq(bs, 1, n - 1)) \o <<0>>

\* two's complement negation in a field of Len(bs) bytes
TwosComplement(bs) == IncBytes(Complement(bs))

(***************************************************************************)
(* Python values.                                                          *)
(***************************************************************************)
PyNone == [t |-> "None", v |-> <<>>]

PyBool(b) == [t |-> "bool", v |-> b]

PyInt(neg, mag) == [t |-> "int", v |-> [neg |-> neg, mag |-> mag]]

\* a small int given as a TLA+ integer
IntOf(n) == IF n < 0 THEN PyInt(TRUE, NatToBig(0 - n)) ELSE PyInt(FALSE, NatToBig(n))

PyFloat(bits) == [t |-> "float", v |-> bits]

PyStr(cps) == [t |-> "str", v |-> cps]

PyBytes(bs) == [t |-> "bytes", v |-> bs]

PyList(es) == [t |-> "list", v |-> es]

PyTuple(es) == [t |-> "tuple", v |-> es]

PyDict(items) == [t |-> "dict", v |-> items]

PyODict(items) == [t |-> "OrderedDict", v |-> items]

\* an object of a class the codec does not know (a set, a complex, ...)
PyObject(name) == [t |-> "object", v |-> name]

\* complex(re, im), the two parts as the bytes of two doubles
PyComplex(re, im) == [t |-> "complex", v |-> [re |-> re, im |-> im]]

\* a set, by its elements
PySet(S) == [t |-> "set", v |-> S]

PyByteArray(bs) == [t |-> "bytearray", v |-> bs]

\* x < y for the payloads of two ints
IntLT(x, y) == IF x.neg
               THEN IF y.neg THEN BigLT(y.mag, x.mag) ELSE TRUE
               ELSE IF y.neg THEN FALSE ELSE BigLT(x.mag, y.mag)

\* a fault: > where the code has >=
IntGT(x, y) == IntLT(y, x)

IntGE(x, y) == ~IntLT(x, y)

Neg(mag) == [neg |-> TRUE, mag |-> mag]

Pos(mag) == [neg |-> FALSE, mag |-> mag]

(***************************************************************************)
(* struct.pack / struct.unpack for the integer formats the code uses:      *)
(* "b" "B" ">h" ">H" ">i" ">I" ">q" ">Q", a width in bytes and a sign.     *)
(***************************************************************************)
StructPack(w, x) == IF x.neg THEN TwosComplement(Pad(x.mag, w)) ELSE Pad(x.mag, w)

StructUnpack(signed, bs) ==
    IF signed /\ bs[1] >= 128
    THEN PyInt(TRUE, Norm(TwosComplement(bs)))
    ELSE PyInt(FALSE, Norm(bs))

(***************************************************************************)
(* UTF-8.                                                                  *)
(***************************************************************************)
Utf8Char(c) ==
    IF c < \h80 THEN <<c>>
    ELSE IF c < \h800 THEN <<\hC0 + (c \div 64), \h80 + (c % 64)>>
    ELSE IF c < \h10000
         THEN <<\hE0 + (c \div 4096), \h80 + ((c \div 64) % 64), \h80 + (c % 64)>>
         ELSE <<\hF0 + (c \div 262144), \h80 + ((c \div 4096) % 64),
                \h80 + ((c \div 64) % 64), \h80 + (c % 64)>>

RECURSIVE Utf8Encode(_)
Utf8Encode(cps) == IF cps = <<>> THEN <<>>
                   ELSE Utf8Char(Head(cps)) \o Utf8Encode(Tail(cps))

(***************************************************************************)
(* The result of writing to fp: the bytes written, and the exception that  *)
(* ended the call, if any.                                                 *)
(***************************************************************************)
Wrote(bs) == [err |-> "none", out |-> bs]

Raised(e, bs) == [err |-> e, out |-> bs]

\* r1 and then r2, r2 not run when r1 raised
AndThen(r1, r2) == IF r1.err # "none" THEN r1
                   ELSE [err |-> r2.err, out |-> r1.out \o r2.out]

(***************************************************************************)
(* mp_dump.py                                                              *)
(***************************************************************************)
_pack_integer(x) ==
    IF IntLT(x, Pos(<<>>))
    THEN IF IntGE(x, Neg(<<32>>)) THEN Wrote(StructPack(1, x))
         ELSE IF IntGE(x, Neg(Pow2(8 - 1))) THEN Wrote(<<\hD0>> \o StructPack(1, x))
         ELSE IF IntGE(x, Neg(Pow2(16 - 1))) THEN Wrote(<<\hD1>> \o StructPack(2, x))
         ELSE IF IntGE(x, Neg(Pow2(32 - 1))) THEN Wrote(<<\hD2>> \o StructPack(4, x))
         ELSE IF IntGE(x, Neg(Pow2(64 - 1))) THEN Wrote(<<\hD3>> \o StructPack(8, x))
         ELSE Raised("UnsupportedTypeException", <<>>)
    ELSE IF IntLT(x, Pos(<<128>>)) THEN Wrote(StructPack(1, x))
         ELSE IF IntLT(x, Pos(Pow2(8))) THEN Wrote(<<\hCC>> \o StructPack(1, x))
         ELSE IF IntLT(x, Pos(Pow2(16))) THEN Wrote(<<\hCD>> \o StructPack(2, x))
         ELSE IF IntLT(x, Pos(Pow2(32))) THEN Wrote(<<\hCE>> \o StructPack(4, x))
         ELSE IF IntLT(x, Pos(Pow2(64))) THEN Wrote(<<\hCF>> \o StructPack(8, x))
         ELSE Raised("UnsupportedTypeException", <<>>)

\* a fault: the codes of True and False exchanged
_pack_boolean_swapped(b) == Wrote(IF b THEN <<\hC2>> ELSE <<\hC3>>)

_pack_boolean(b) == Wrote(IF b THEN <<\hC3>> ELSE <<\hC2>>)

\* the header _pack_string writes for a str of obj_len UTF-8 bytes
_pack_string_header(obj_len) ==
    IF BigLT(obj_len, <<32>>) THEN Wrote(<<\hA0 + BigToNat(obj_len)>>)
    ELSE IF BigLT(obj_len, Pow2(8)) THEN Wrote(<<\hD9>> \o Pad(obj_len, 1))
    ELSE IF BigLT(obj_len, Pow2(16)) THEN Wrote(<<\hDA>> \o Pad(obj_len, 2))
    ELSE IF BigLT(obj_len, Pow2(32)) THEN Wrote(<<\hDB>> \o Pad(obj_len, 4))
    ELSE Raised("UnsupportedTypeException", <<>>)

\* a fault: the header counts the characters of the str, not its UTF-8 bytes
_pack_string_chars(cps) ==
    AndThen(_pack_string_header(NatToBig(Len(cps))), Wrote(Utf8Encode(cps)))

_pack_string(cps) ==
    LET data == Utf8Encode(cps)
    IN  AndThen(_pack_string_header(NatToBig(Len(data))), Wrote(data))

\* the header _pack_binary writes for obj_len bytes
_pack_binary_header(obj_len) ==
    IF BigLT(obj_len, Pow2(8)) THEN Wrote(<<\hC4>> \o Pad(obj_len, 1))
    ELSE IF BigLT(obj_len, Pow2(16)) THEN Wrote(<<\hC5>> \o Pad(obj_len, 2))
    ELSE IF BigLT(obj_len, Pow2(32)) THEN Wrote(<<\hC6>> \o Pad(obj_len, 4))
    ELSE Raised("UnsupportedTypeException", <<>>)

_pack_binary(bs) == AndThen(_pack_binary_header(NatToBig(Len(bs))), Wrote(bs))

\* a fault: tb without its first byte, so that every fixed form is one length early
ExtTbShifted == <<\hD4, \hD5, \h00, \hD6, \h00, \h00, \h00, \hD7,
                  \h00, \h00, \h00, \h00, \h00, \h00, \h00, \hD8, \h00>>

\* the default argument tb of _pack_ext
ExtTb == <<\h00, \hD4, \hD5, \h00, \hD6, \h00, \h00, \h00, \hD7,
           \h00, \h00, \h00, \h00, \h00, \h00, \h00, \hD8>>

\* the header _pack_ext writes for type code otype and obj_len bytes of data
_pack_ext_header(otype, obj_len) ==
    LET ot   == otype % 256
        code == IF ~BigLT(<<16>>, obj_len) THEN ExtTb[BigToNat(obj_len) + 1] ELSE 0
    IN  IF code # 0 THEN Wrote(<<code, ot>>)
        ELSE IF BigLT(obj_len, Pow2(8)) THEN Wrote(<<\hC7>> \o Pad(obj_len, 1) \o <<ot>>)
        ELSE IF BigLT(obj_len, Pow2(16)) THEN Wrote(<<\hC8>> \o Pad(obj_len, 2) \o <<ot>>)
        ELSE IF BigLT(obj_len, Pow2(32)) THEN Wrote(<<\hC9>> \o Pad(obj_len, 4) \o <<ot>>)
        ELSE Raised("UnsupportedTypeException", <<>>)

_pack_ext(otype, odata) ==
    AndThen(_pack_ext_header(otype, NatToBig(Len(odata))), Wrote(odata))

\* a fault: the fixed form taken up to 16 elements, not up to 15
_pack_array_header_le16(obj_len) ==
    IF BigLT(obj_len, <<17>>) THEN Wrote(<<\h90 + BigToNat(obj_len)>>)
    ELSE IF BigLT(obj_len, Pow2(16)) THEN Wrote(<<\hDC>> \o Pad(obj_len, 2))
    ELSE IF BigLT(obj_len, Pow2(32)) THEN Wrote(<<\hDD>> \o Pad(obj_len, 4))
    ELSE Raised("UnsupportedTypeException", <<>>)

\* the header _pack_array writes for obj_len elements
_pack_array_header(obj_len) ==
    IF BigLT(obj_len, <<16>>) THEN Wrote(<<\h90 + BigToNat(obj_len)>>)
    ELSE IF BigLT(obj_len, Pow2(16)) THEN Wrote(<<\hDC>> \o Pad(obj_len, 2))
    ELSE IF BigLT(obj_len, Pow2(32)) THEN Wrote(<<\hDD>> \o Pad(obj_len, 4))
    ELSE Raised("UnsupportedTypeException", <<>>)

\* the header _pack_map writes for obj_len items
_pack_map_header(obj_len) ==
    IF BigLT(obj_len, <<16>>) THEN Wrote(<<\h80 + BigToNat(obj_len)>>)
    ELSE IF BigLT(obj_len, Pow2(16)) THEN Wrote(<<\hDE>> \o Pad(obj_len, 2))
    ELSE IF BigLT(obj_len, Pow2(32)) THEN Wrote(<<\hDF>> \o Pad(obj_len, 4))
    ELSE Raised("UnsupportedTypeException", <<>>)

(***************************************************************************)
(* IEEE-754: a Python float is a double, kept as its 8 bytes (big-endian). *)
(* struct.pack(">f") rounds it to a single (round to nearest, ties to      *)
(* even) and raises OverflowError when the rounded value is infinite;      *)
(* struct.unpack(">f") widens a single to a double.  Both conversions turn *)
(* a signalling NaN into a quiet one, as the C conversion does.            *)
(***************************************************************************)
F64Sign(bs) == bs[1] \div 128

F64Exp(bs) == (bs[1] % 128) * 16 + (bs[2] \div 16)

\* the 23 leading bits of the mantissa
F64Top23(bs) == (bs[2] % 16) * 524288 + bs[3] * 2048 + bs[4] * 8 + (bs[5] \div 32)

\* the 29 trailing bits of the mantissa: the first of them, and whether any other is set
F64Round(bs) == (bs[5] \div 16) % 2

F64Sticky(bs) == (bs[5] % 16) # 0 \/ bs[6] # 0 \/ bs[7] # 0 \/ bs[8] # 0

\* a single from its sign and its 31 other bits
F32Bytes(s, c) == <<s * 128 + (c \div 16777216), (c \div 65536) % 256,
                    (c \div 256) % 256, c % 256>>

DoubleToSingle(bs) ==
    LET s   == F64Sign(bs)
        E   == F64Exp(bs)
        m   == F64Top23(bs)
        e   == E - 1023
    IN  IF E = 2047
        THEN IF m = 0 /\ F64Round(bs) = 0 /\ ~F64Sticky(bs)
             THEN Wrote(F32Bytes(s, 255 * 8388608))
             ELSE Wrote(F32Bytes(s, 255 * 8388608 + (IF m < 4194304 THEN m + 4194304 ELSE m)))
        ELSE IF E = 0 THEN Wrote(F32Bytes(s, 0))
        ELSE IF e > 127 THEN Raised("OverflowError", <<>>)
        ELSE IF e >= 0 - 126
        THEN LET c  == (e + 127) * 8388608 + m
                 up == F64Round(bs) = 1 /\ (F64Sticky(bs) \/ m % 2 = 1)
                 r  == IF up THEN c + 1 ELSE c
             IN  IF r >= 255 * 8388608 THEN Raised("OverflowError", <<>>)
                 ELSE Wrote(F32Bytes(s, r))
        ELSE LET shift == (0 - 126) - e
                 full  == 8388608 + m
                 low   == F64Round(bs) = 1 \/ F64Sticky(bs)
             IN  IF shift > 24 THEN Wrote(F32Bytes(s, 0))
                 ELSE LET q    == full \div (2 ^ shift)
                          r    == full % (2 ^ shift)
                          half == 2 ^ (shift - 1)
                          up   == r > half \/ (r = half /\ (low \/ q % 2 = 1))
                      IN  Wrote(F32Bytes(s, IF up THEN q + 1 ELSE q))

\* a double from its sign, its exponent field and the 23 leading bits of its mantissa
F64Bytes(s, E, m) == <<s * 128 + (E \div 16), (E % 16) * 16 + (m \div 524288),
                       (m \div 2048) % 256, (m \div 8) % 256, (m % 8) * 32, 0, 0, 0>>

\* the position of the highest bit set in m > 0
RECURSIVE TopBit(_)
TopBit(m) == IF m < 2 THEN 0 ELSE 1 + TopBit(m \div 2)

SingleToDouble(bs) ==
    LET s == bs[1] \div 128
        E == (bs[1] % 128) * 2 + (bs[2] \div 128)
        m == (bs[2] % 128) * 65536 + bs[3] * 256 + bs[4]
    IN  IF E = 255 THEN F64Bytes(s, 2047, IF m # 0 /\ m < 4194304 THEN m + 4194304 ELSE m)
        ELSE IF E > 0 THEN F64Bytes(s, E - 127 + 1023, m)
        ELSE IF m = 0 THEN F64Bytes(s, 0, 0)
        ELSE LET k == TopBit(m)
             IN  F64Bytes(s, k - 149 + 1023, (m - 2 ^ k) * (2 ^ (23 - k)))

(***************************************************************************)
(* The extension registry.  ext_type_to_class and ext_class_to_type are    *)
(* the two dicts of __init__.py, which ext_serializable fills.  builtins,  *)
(* custom and packers are the dicts mp_dump and mp_load read: builtins     *)
(* (native type -> handler class, type code) and custom (class -> type     *)
(* code) list their entries in registration order, packers maps a type     *)
(* code to its class.  A dict keyed by classes is the sequence of its      *)
(* entries, a dict keyed by type codes a function.  Nothing is registered  *)
(* until ext_serializable is called.                                       *)
(***************************************************************************)
ext_type_to_class == registry.ext_type_to_class

ext_class_to_type == registry.ext_class_to_type

builtins == registry.builtins

custom == registry.custom

packers == registry.packers

\* the registry as the import of the package leaves it
EmptyRegistry ==
    [ext_type_to_class |-> <<>>, ext_class_to_type |-> <<>>,
     builtins |-> <<>>, custom |-> <<>>, packers |-> <<>>]

\* cls in table, for a dict keyed by classes
\* a fault: no class is ever found registered
HasNoClass(table, cls) == FALSE

HasClass(table, cls) == \E i \in 1..Len(table) : table[i].cls = cls

\* the outcome of a registration: the exception raised and the registry left, or the
\* class returned and the registry with the class in it
Registered(cls, reg) == [err |-> "none", val |-> cls, reg |-> reg]

Rejected(e, why, reg) == [err |-> e, val |-> why, reg |-> reg]

\* a fault: the range test lets the code 128 through
ext_serializable_to128(reg, ext_type, cls) ==
    IF ~(0 - 128 <= ext_type /\ ext_type <= 128)
    THEN Rejected("ValueError", "out of range", reg)
    ELSE IF ext_type \in DOMAIN reg.ext_type_to_class
    THEN Rejected("ValueError", "type registered", reg)
    ELSE IF HasClass(reg.ext_class_to_type, cls)
    THEN Rejected("ValueError", "class registered", reg)
    ELSE Registered(cls,
            [reg EXCEPT !.ext_type_to_class = (ext_type :> cls) @@ @,
                        !.ext_class_to_type = Append(@, [cls |-> cls, ext_type |-> ext_type])])

\* ext_serializable(ext_type)(cls): the wrapper, on a registry reg; every type code of
\* the model is an int
ext_serializable(reg, ext_type, cls) ==
    IF ~(0 - 128 <= ext_type /\ ext_type <= 127)
    THEN Rejected("ValueError", "out of range", reg)
    ELSE IF ext_type \in DOMAIN reg.ext_type_to_class
    THEN Rejected("ValueError", "type registered", reg)
    ELSE IF HasClass(reg.ext_class_to_type, cls)
    THEN Rejected("ValueError", "class registered", reg)
    ELSE Registered(cls,
            [reg EXCEPT !.ext_type_to_class = (ext_type :> cls) @@ @,
                        !.ext_class_to_type = Append(@, [cls |-> cls, ext_type |-> ext_type])])

\* table[cls] = entry, for a dict keyed by classes: a key already there keeps its place
SetEntry(table, entry) ==
    IF HasClass(table, entry.cls)
    THEN [i \in 1..Len(table) |-> IF table[i].cls = entry.cls THEN entry ELSE table[i]]
    ELSE Append(table, entry)

\* what a registration that succeeded leaves in the dicts mp_dump and mp_load read:
\* the class under its code in packers, and the code under the class in custom, or,
\* when the class is the handler of a native type, the handler and the code under that
\* type in builtins
Associate(reg, ext_type, cls, example) ==
    [reg EXCEPT !.packers = (ext_type :> cls) @@ @,
                !.custom = IF example = "None"
                           THEN SetEntry(@, [cls |-> cls, ext_type |-> ext_type]) ELSE @,
                !.builtins = IF example = "None" THEN @
                             ELSE SetEntry(@, [cls |-> example, pk |-> cls,
                                               ext_type |-> ext_type])]

(***************************************************************************)
(* The classes of the model: Rectangle, its subclass Square and            *)
(* IncompleteClass of test_umsgpack.py, and the handlers of OrderedDict    *)
(* and of tuple of mpk_odict.py and mpk_tuple.py (both are named Tuple),   *)
(* of complex, set and bytearray of mpk_complex.py, mpk_set.py and         *)
(* mpk_bytearray.py.                                                       *)
(***************************************************************************)
\* the classes cls inherits from, object left out
Ancestors(cls) ==
    IF cls = "bool" THEN {"int"}
    ELSE IF cls = "OrderedDict" THEN {"dict"}
    ELSE IF cls = "Square" THEN {"Rectangle"}
    ELSE {}

\* how cls declares packb: "method" for def packb(self), "static" for a static
\* packb(s, options), "none" when it has no packb
PackbKind(cls) ==
    IF cls \in {"Rectangle", "Square", "mpk_tuple.Tuple", "mpk_complex.Complex",
                "mpk_set.Set", "mpk_bytearray.ByteArray"} THEN "method"
    ELSE IF cls = "mpk_odict.Tuple" THEN "static"
    ELSE "none"

\* the number of arguments the unpackb of cls takes (data, or data and options), the
\* class itself not counted; 0 when it has no unpackb
UnpackbArgs(cls) ==
    IF cls \in {"Rectangle", "Square", "mpk_tuple.Tuple", "mpk_odict.Tuple",
                "mpk_complex.Complex"} THEN 2
    ELSE IF cls \in {"mpk_set.Set", "mpk_bytearray.ByteArray"} THEN 1
    ELSE 0

\* a Rectangle or a Square; Square(width) is made by Rectangle.__init__(width, width)
Instance(cls, length, width) == [t |-> cls, v |-> [length |-> length, width |-> width]]

\* a fault: the class of o itself and no class it inherits from
IsInstanceExact(o, cls) == o.t = cls

\* isinstance(o, cls) for the classes of the model
IsInstance(o, cls) == o.t = cls \/ cls \in Ancestors(o.t)

\* a fault: the last match taken, not the first
FirstMatchLast(table, o) ==
    LET hits == {i \in 1..Len(table) : IsInstance(o, table[i].cls)}
    IN  IF hits = {} THEN 0 ELSE CHOOSE i \in hits : \A j \in hits : i >= j

\* next((t for t in table if isinstance(obj, t))): the index of the first match, 0 for
\* StopIteration
FirstMatch(table, o) ==
    LET hits == {i \in 1..Len(table) : IsInstance(o, table[i].cls)}
    IN  IF hits = {} THEN 0 ELSE CHOOSE i \in hits : \A j \in hits : i <= j

(***************************************************************************)
(* mp_dump.py, continued                                                   *)
(***************************************************************************)
\* what an absent force_float_precision falls back to
float_precision == "double"

_pack_float(bits, opts) ==
    LET fpr == IF opts.force_float_precision = "unset" THEN float_precision
               ELSE opts.force_float_precision
    IN  IF fpr = "double" THEN Wrote(<<\hCB>> \o bits)
        ELSE IF fpr = "single" THEN AndThen(Wrote(<<\hCA>>), DoubleToSingle(bits))
        ELSE Raised("ValueError", <<>>)

_utype == Raised("UnsupportedTypeException", <<>>)

\* the options of a call that passes none
DefaultOptions ==
    [force_float_precision |-> "unset", observer |-> FALSE, ext_handlers |-> <<>>,
     use_tuple |-> FALSE, use_ordered_dict |-> FALSE, allow_invalid_utf8 |-> FALSE]

RECURSIVE mpdump(_, _)

\* obj.packb(), what the custom branch of mpdump calls: for a Rectangle,
\* umsgpack.dumps([self.length, self.width])
ObjPackb(o) ==
    IF PackbKind(o.t) = "none" THEN Raised("AttributeError", <<>>)
    ELSE IF PackbKind(o.t) = "static" THEN Raised("TypeError", <<>>)
    ELSE IF o.t \in {"Rectangle", "Square"}
    THEN mpdump(PyList(<<o.v.length, o.v.width>>), DefaultOptions)
    ELSE mpdump(PyList(o.v), DefaultOptions)

\* pk.packb(obj, options), pk a class, what the builtins branch of mpdump calls: a
\* packb declared def packb(self) does not take the two arguments; the static packb of
\* mpk_odict.py returns umsgpack.dumps(dict(s))
ClsPackb(pk, o, opts) ==
    IF PackbKind(pk) = "none" THEN Raised("AttributeError", <<>>)
    ELSE IF PackbKind(pk) = "method" THEN Raised("TypeError", <<>>)
    ELSE IF o.t = "OrderedDict" THEN mpdump(PyDict(o.v), DefaultOptions)
    ELSE Raised("TypeError", <<>>)

\* for e in obj: mpdump(e, fp, options)
RECURSIVE PackElements(_, _)
PackElements(es, opts) ==
    IF es = <<>> THEN Wrote(<<>>)
    ELSE LET r == mpdump(Head(es), opts)
         IN  IF r.err # "none" THEN r ELSE AndThen(r, PackElements(Tail(es), opts))

_pack_array(es, opts) ==
    LET h == _pack_array_header(NatToBig(Len(es)))
    IN  IF h.err # "none" THEN h ELSE AndThen(h, PackElements(es, opts))

\* for k, v in obj.items(): mpdump(k, fp, options); mpdump(v, fp, options)
RECURSIVE PackItems(_, _)
PackItems(items, opts) ==
    IF items = <<>> THEN Wrote(<<>>)
    ELSE LET k == mpdump(Head(items)[1], opts)
         IN  IF k.err # "none" THEN k
             ELSE LET kv == AndThen(k, mpdump(Head(items)[2], opts))
                  IN  IF kv.err # "none" THEN kv
                      ELSE AndThen(kv, PackItems(Tail(items), opts))

_pack_map(items, opts) ==
    LET h == _pack_map_header(NatToBig(Len(items)))
    IN  IF h.err # "none" THEN h ELSE AndThen(h, PackItems(items, opts))

mpdump(o, opts) ==
    IF o.t = "None" THEN Wrote(<<\hC0>>)
    ELSE IF FirstMatch(builtins, o) # 0
    THEN LET b == builtins[FirstMatch(builtins, o)]
             Ext(data) ==
                 IF data.err = "AttributeError" THEN Raised("NotImplementedError", <<>>)
                 ELSE IF data.err # "none" THEN data
                 ELSE _pack_ext(b.ext_type, data.out)
         IN  Ext(ClsPackb(b.pk, o, opts))
    ELSE IF IsInstance(o, "bool") THEN _pack_boolean(o.v)
    ELSE IF IsInstance(o, "int") THEN _pack_integer(o.v)
    ELSE IF IsInstance(o, "float") THEN _pack_float(o.v, opts)
    ELSE IF IsInstance(o, "str") THEN _pack_string(o.v)
    ELSE IF IsInstance(o, "bytes") \/ IsInstance(o, "bytearray") THEN _pack_binary(o.v)
    ELSE IF IsInstance(o, "list") \/ IsInstance(o, "tuple") THEN _pack_array(o.v, opts)
    ELSE IF IsInstance(o, "dict") \/ IsInstance(o, "OrderedDict") THEN _pack_map(o.v, opts)
    ELSE IF custom = <<>> THEN _utype
    ELSE IF FirstMatch(custom, o) = 0 THEN _utype
    ELSE LET c == custom[FirstMatch(custom, o)]
             Ext(data) ==
                 IF data.err = "AttributeError" THEN _utype
                 ELSE IF data.err # "none" THEN data
                 ELSE _pack_ext(c.ext_type, data.out)
         IN  Ext(ObjPackb(o))

\* dumps(obj, **options): the bytes, or the exception
dumps(o, opts) == mpdump(o, opts)

(***************************************************************************)
(* The byte source of a decode.  f.buf holds every byte the source will    *)
(* ever deliver and f.splits the offsets at which it cuts them into        *)
(* chunks: one call of fp.read(n) returns the bytes up to the next cut, at *)
(* most n of them, and no byte at the end of the data.  io.BytesIO has no  *)
(* cut.  The state of a decode is the offset pos reached in the source,    *)
(* with three logs: reads, for each call of fp.read the number of bytes    *)
(* asked for (a magnitude) and the number returned; tags, the bytes read   *)
(* in tag position; obs, the chunks handed to the observer.                *)
(***************************************************************************)
Source(buf, splits) == [buf |-> buf, splits |-> splits]

BytesIO(buf) == Source(buf, {})

Start == [pos |-> 0, reads |-> <<>>, tags |-> <<>>, obs |-> <<>>]

SetMin(S) == CHOOSE x \in S : \A y \in S : x <= y

\* n - k for a magnitude n >= k
RECURSIVE BigSubNat(_, _)
BigSubNat(n, k) == IF k = 0 THEN n ELSE BigSubNat(BigDec(n), k - 1)

\* how many bytes fp.read(n) returns at offset pos
ReadCount(f, pos, n) ==
    LET avail == SetMin({c \in f.splits : c > pos} \cup {Len(f.buf)}) - pos
    IN  IF BigLT(NatToBig(avail), n) THEN avail ELSE BigToNat(n)

\* fp.read(n): the bytes, and the state after the call
Read(f, st, n) ==
    LET k == ReadCount(f, st.pos, n)
    IN  [data |-> SubSeq(f.buf, st.pos + 1, st.pos + k),
         st   |-> [st EXCEPT !.pos = @ + k, !.reads = Append(@, <<n, k>>)]]

(***************************************************************************)
(* mp_load.py                                                              *)
(***************************************************************************)
\* the outcome of a step of the decoder: a value, or the exception raised (val is then
\* the argument the exception names, where the model keeps one)
Return(val, st) == [err |-> "none", val |-> val, st |-> st]

Raise(e, st) == [err |-> e, val |-> PyNone, st |-> st]

RaiseWith(e, arg, st) == [err |-> e, val |-> arg, st |-> st]

\* a fault: after a short read the loop asks for n bytes again, not for n - len(data)
RECURSIVE ReadMoreAgain(_, _, _, _)
ReadMoreAgain(f, st, n, data) ==
    IF ~BigLT(NatToBig(Len(data)), n) THEN Return(PyBytes(data), st)
    ELSE LET Loop(chunk) ==
                 IF Len(chunk.data) = 0 THEN Raise("InsufficientDataException", chunk.st)
                 ELSE ReadMoreAgain(f, chunk.st, n, data \o chunk.data)
         IN  Loop(Read(f, st, n))

\* while len(data) < n: chunk = fp.read(n - len(data)) ...
RECURSIVE ReadMore(_, _, _, _)
ReadMore(f, st, n, data) ==
    IF ~BigLT(NatToBig(Len(data)), n) THEN Return(PyBytes(data), st)
    ELSE LET Loop(chunk) ==
                 IF Len(chunk.data) = 0 THEN Raise("InsufficientDataException", chunk.st)
                 ELSE ReadMore(f, chunk.st, n, data \o chunk.data)
         IN  Loop(Read(f, st, BigSubNat(n, Len(data))))

\* a fault: no return of b"" before the read when no byte is asked for
_read_except_unguarded(f, st, n) ==
    LET Got(first) ==
            IF Len(first.data) = 0 THEN Raise("InsufficientDataException", first.st)
            ELSE ReadMore(f, first.st, n, first.data)
    IN  Got(Read(f, st, n))

_read_except(f, st, n) ==
    IF n = <<>> THEN Return(PyBytes(<<>>), st)
    ELSE LET Got(first) ==
                 IF Len(first.data) = 0 THEN Raise("InsufficientDataException", first.st)
                 ELSE ReadMore(f, first.st, n, first.data)
         IN  Got(Read(f, st, n))

\* await fp.readexactly(n) of a StreamReader: n bytes, gathered over as many reads of
\* the source as it takes, or EOFError when the source ends first
RECURSIVE readexactly(_, _, _, _)
readexactly(f, st, n, r) ==
    IF ~BigLT(NatToBig(Len(r)), n) THEN Return(PyBytes(r), st)
    ELSE LET Loop(block) ==
                 IF Len(block.data) = 0 THEN Raise("EOFError", block.st)
                 ELSE readexactly(f, block.st, n, r \o block.data)
         IN  Loop(Read(f, st, BigSubNat(n, Len(r))))

\* as_load._re and aloader._re
_re(cx, st, n) ==
    LET Update(d) ==
            IF d.err # "none" THEN d
            ELSE
            IF cx.opts.observer
            THEN Return(d.val, [d.st EXCEPT !.obs = Append(@, d.val.v)])
            ELSE d
    IN  Update(readexactly(cx.f, st, n, <<>>))

\* the three decoders read alike but for the call that fetches n bytes
Fetch(cx, st, n) ==
    IF cx.drv = "mp_load" THEN _read_except(cx.f, st, n) ELSE _re(cx, st, n)

\* the struct formats that read a signed integer
SignedFormats == {"b", ">h", ">i", ">q"}

_re0(s, cx, st, n) ==
    LET Unpack(r) ==
            IF r.err # "none" THEN r
            ELSE Return(StructUnpack(s \in SignedFormats, r.val.v), r.st)
    IN  Unpack(Fetch(cx, st, NatToBig(n)))

\* a fault: the signed tags read with the unsigned formats
IntFormatsUnsigned == <<"B", ">H", ">I", ">Q", "B", ">H", ">I", ">Q">>

\* "B >H>I>Qb >h>i>q"[off : off + 2].strip(), off = ic << 1
IntFormats == <<"B", ">H", ">I", ">Q", "b", ">h", ">i", ">q">>

_unpack_integer(code, cx, st) ==
    LET ic == code[1]
    IN  IF (ic \div 32) * 32 = \hE0 THEN Return(StructUnpack(TRUE, code), st)
        ELSE IF (ic \div 128) * 128 = \h00 THEN Return(StructUnpack(FALSE, code), st)
        ELSE LET i == ic - \hCC
             IN  _re0(IntFormats[i + 1], cx, st, 2 ^ (i % 4))

_unpack_float(code, cx, st) ==
    LET ic == code[1]
        Single(r) ==
            IF r.err # "none" THEN r
            ELSE Return(PyFloat(SingleToDouble(r.val.v)), r.st)
        Double(r) ==
            IF r.err # "none" THEN r
            ELSE Return(PyFloat(r.val.v), r.st)
    IN  IF ic = \hCA THEN Single(Fetch(cx, st, <<4>>))
        ELSE IF ic = \hCB THEN Double(Fetch(cx, st, <<8>>))
        ELSE Raise("Logic error", st)

IsCont(b) == \h80 <= b /\ b <= \hBF

\* str(data, "utf-8"): the code points, or ok = FALSE for a UnicodeDecodeError
RECURSIVE Utf8Decode(_)
Utf8Decode(bs) ==
    IF bs = <<>> THEN [ok |-> TRUE, cps |-> <<>>]
    ELSE LET b == bs[1]
             n == Len(bs)
             w == IF b < \h80 THEN 1
                  ELSE IF \hC2 <= b /\ b <= \hDF /\ n >= 2 /\ IsCont(bs[2]) THEN 2
                  ELSE IF /\ \hE0 <= b /\ b <= \hEF /\ n >= 3
                          /\ IsCont(bs[2]) /\ IsCont(bs[3])
                          /\ (b = \hE0 => bs[2] >= \hA0)
                          /\ (b = \hED => bs[2] <= \h9F) THEN 3
                  ELSE IF /\ \hF0 <= b /\ b <= \hF4 /\ n >= 4
                          /\ IsCont(bs[2]) /\ IsCont(bs[3]) /\ IsCont(bs[4])
                          /\ (b = \hF0 => bs[2] >= \h90)
                          /\ (b = \hF4 => bs[2] <= \h8F) THEN 4
                  ELSE 0
             cp == IF w = 1 THEN b
                   ELSE IF w = 2 THEN (b - \hC0) * 64 + (bs[2] - \h80)
                   ELSE IF w = 3 THEN (b - \hE0) * 4096 + (bs[2] - \h80) * 64 + (bs[3] - \h80)
                   ELSE (b - \hF0) * 262144 + (bs[2] - \h80) * 4096
                        + (bs[3] - \h80) * 64 + (bs[4] - \h80)
         IN  IF w = 0 THEN [ok |-> FALSE, cps |-> <<>>]
             ELSE LET rest == Utf8Decode(SubSeq(bs, w + 1, n))
                  IN  [ok |-> rest.ok, cps |-> <<cp>> \o rest.cps]

\* a fault: the bytes are returned whenever they are not valid UTF-8, whatever
\* allow_invalid_utf8 says
StringBodyLenient(cx, st, length) ==
    LET Str(r, u) ==
            IF u.ok THEN Return(PyStr(u.cps), r.st) ELSE Return(r.val, r.st)
        Decode(r) ==
            IF r.err # "none" THEN r
            ELSE Str(r, Utf8Decode(r.val.v))
    IN  Decode(Fetch(cx, st, length))

\* the payload of a str or a bytes of the announced length
StringBody(cx, st, length) ==
    LET Str(r, u) ==
            IF u.ok THEN Return(PyStr(u.cps), r.st)
            ELSE IF cx.opts.allow_invalid_utf8 THEN Return(r.val, r.st)
            ELSE Raise("InvalidStringException", r.st)
        Decode(r) ==
            IF r.err # "none" THEN r
            ELSE Str(r, Utf8Decode(r.val.v))
    IN  Decode(Fetch(cx, st, length))

_unpack_string(code, cx, st) ==
    LET ic == code[1]
        len == IF (ic \div 32) * 32 = \hA0 THEN Return(IntOf(ic % 32), st)
               ELSE IF ic = \hD9 THEN _re0("B", cx, st, 1)
               ELSE IF ic = \hDA THEN _re0(">H", cx, st, 2)
               ELSE IF ic = \hDB THEN _re0(">I", cx, st, 4)
               ELSE Raise("Logic error", st)
        Body(length) ==
            IF length.err # "none" THEN length
            ELSE StringBody(cx, length.st, length.val.v.mag)
    IN  Body(len)

_unpack_binary(code, cx, st) ==
    LET ic == code[1]
        len == IF ic = \hC4 THEN _re0("B", cx, st, 1)
               ELSE IF ic = \hC5 THEN _re0(">H", cx, st, 2)
               ELSE IF ic = \hC6 THEN _re0(">I", cx, st, 4)
               ELSE Raise("Logic error", st)
        Body(length) ==
            IF length.err # "none" THEN length
            ELSE Fetch(cx, length.st, length.val.v.mag)
    IN  Body(len)

\* a small Python int as a TLA+ integer
SmallInt(x) == IF x.neg THEN 0 - BigToNat(x.mag) ELSE BigToNat(x.mag)

\* b"\xd4\xd5\xd6\xd7\xd8".find(code)
FixExtFind(ic) == IF \hD4 <= ic /\ ic <= \hD8 THEN ic - \hD4 ELSE 0 - 1

\* lines 103-117 of _unpack_ext: the type code and the payload read from the source
_unpack_ext_read(code, cx, st) ==
    LET ic  == code[1]
        n   == FixExtFind(ic)
        len == IF n >= 0 THEN Return(IntOf(2 ^ n), st)
               ELSE IF ic = \hC7 THEN _re0("B", cx, st, 1)
               ELSE IF ic = \hC8 THEN _re0(">H", cx, st, 2)
               ELSE IF ic = \hC9 THEN _re0(">I", cx, st, 4)
               ELSE Raise("Logic error", st)
        Ext(ext_type, ext_data) ==
            Return([t |-> "Ext",
                    v |-> [type |-> SmallInt(ext_type.val.v), data |-> ext_data.val.v]],
                   ext_data.st)
        Data(length, ext_type) ==
            LET Made(ext_data) ==
                    IF ext_data.err # "none" THEN ext_data
                    ELSE Ext(ext_type, ext_data)
            IN  Made(Fetch(cx, ext_type.st, length.val.v.mag))
        Type(length) ==
            IF length.err # "none" THEN length
            ELSE
            LET Typed(ext_type) ==
                    IF ext_type.err # "none" THEN ext_type
                    ELSE Data(length, ext_type)
            IN  Typed(_re0("b", cx, length.st, 1))
    IN  Type(len)

\* the decoder a call runs: the source, the options and the module that decodes
Context(f, opts, drv) == [f |-> f, opts |-> opts, drv |-> drv]

RECURSIVE mpload(_, _)

RECURSIVE Hashable(_)

\* what the unpackb of cls makes of the payload, for the payloads of the model:
\* Rectangle and Square, cls(*umsgpack.loads(data)); mpk_odict.py,
\* OrderedDict(umsgpack.loads(data)); mpk_tuple.py, tuple(umsgpack.loads(data));
\* mpk_set.py, set(umsgpack.loads(data)); mpk_bytearray.py,
\* bytearray(umsgpack.loads(data)); mpk_complex.py, struct.unpack("b", data), which
\* wants a buffer of exactly one byte, and then two floats after it
Unpackb(cls, ext_data, st) ==
    LET Made(r) ==
            IF cls = "mpk_complex.Complex" THEN Raise("struct.error", st)
            ELSE IF r.err # "none" THEN RaiseWith(r.err, r.val, st)
            ELSE IF cls = "mpk_odict.Tuple"
            THEN IF r.val.t = "dict" THEN Return(PyODict(r.val.v), st)
                 ELSE Raise("TypeError", st)
            ELSE IF cls = "mpk_bytearray.ByteArray"
            THEN IF r.val.t = "bytes" THEN Return(PyByteArray(r.val.v), st)
                 ELSE Raise("TypeError", st)
            ELSE IF r.val.t # "list" THEN Raise("TypeError", st)
            ELSE IF cls = "mpk_set.Set"
            THEN IF \A i \in 1..Len(r.val.v) : Hashable(r.val.v[i])
                 THEN Return(PySet({r.val.v[i] : i \in 1..Len(r.val.v)}), st)
                 ELSE Raise("TypeError", st)
            ELSE IF cls = "mpk_tuple.Tuple" THEN Return(PyTuple(r.val.v), st)
            ELSE IF cls = "Rectangle" /\ Len(r.val.v) = 2
            THEN Return(Instance("Rectangle", r.val.v[1], r.val.v[2]), st)
            ELSE IF cls = "Square" /\ Len(r.val.v) = 1
            THEN Return(Instance("Square", r.val.v[1], r.val.v[1]), st)
            ELSE Raise("TypeError", st)
    IN  Made(mpload(Context(BytesIO(ext_data), DefaultOptions, "mp_load"), Start))

\* try: return cls.unpackb(...) with nargs arguments; except AttributeError: raise
\* NotImplementedError
CallUnpackb(cls, nargs, ext_data, st) ==
    IF UnpackbArgs(cls) = 0 THEN Raise("NotImplementedError", st)
    ELSE IF UnpackbArgs(cls) # nargs THEN Raise("TypeError", st)
    ELSE Unpackb(cls, ext_data, st)

_unpack_ext(code, cx, st) ==
    LET Unpack(r) ==
            IF r.err # "none" THEN r
            ELSE
            LET ext_type == r.val.v.type
                ext_data == r.val.v.data
            IN  IF ext_type \in DOMAIN packers
                THEN CallUnpackb(packers[ext_type], 2, ext_data, r.st)
                ELSE RaiseWith("UnsupportedTypeException", IntOf(ext_type), r.st)
    IN  Unpack(_unpack_ext_read(code, cx, st))

\* ext_handlers[ext.type](ext): what the handler h returns for ext
CallHandler(h, ext) == [t |-> "handled", v |-> [by |-> h, ext |-> ext]]

\* _unpack_ext of as_load.py and of as_loader.py
as_unpack_ext(code, cx, st) ==
    LET Unpack(r) ==
            IF r.err # "none" THEN r
            ELSE
            LET ext      == r.val
                ext_type == r.val.v.type
                ext_data == r.val.v.data
            IN  IF ext_type \in DOMAIN cx.opts.ext_handlers
                THEN Return(CallHandler(cx.opts.ext_handlers[ext_type], ext), r.st)
                ELSE IF ext_type \in DOMAIN ext_type_to_class
                THEN CallUnpackb(ext_type_to_class[ext_type], 1, ext_data, r.st)
                ELSE Return(ext, r.st)
    IN  Unpack(_unpack_ext_read(code, cx, st))

\* the coroutine object a call of an async function returns when nothing awaits it: it
\* has read nothing; v is the offset of the call, which tells two of them apart
Coroutine(st) == [t |-> "coroutine", v |-> st.pos]

(***************************************************************************)
(* Python's hash() and == on the values a decode produces.                 *)
(***************************************************************************)
Hashable(k) ==
    IF k.t \in {"list", "dict", "OrderedDict", "bytearray", "set"} THEN FALSE
    ELSE IF k.t = "tuple" THEN \A i \in 1..Len(k.v) : Hashable(k.v[i])
    ELSE TRUE

\* the bits of a byte string, most significant first
Bits(bs) == [i \in 1..(8 * Len(bs)) |-> (bs[((i - 1) \div 8) + 1] \div (2 ^ (7 - ((i - 1) % 8)))) % 2]

\* the magnitude a bit string (a multiple of 8 bits long) stands for
BitsToBig(bits) ==
    Norm([j \in 1..(Len(bits) \div 8) |->
            bits[8 * j - 7] * 128 + bits[8 * j - 6] * 64 + bits[8 * j - 5] * 32
            + bits[8 * j - 4] * 16 + bits[8 * j - 3] * 8 + bits[8 * j - 2] * 4
            + bits[8 * j - 1] * 2 + bits[8 * j]])

IsNaN(bs) == F64Exp(bs) = 2047 /\ (F64Top23(bs) # 0 \/ F64Round(bs) # 0 \/ F64Sticky(bs))

IsZeroFloat(bs) == F64Exp(bs) = 0 /\ F64Top23(bs) = 0 /\ F64Round(bs) = 0 /\ ~F64Sticky(bs)

\* the int a float equals, if it equals one
FloatAsInt(bs) ==
    LET E    == F64Exp(bs)
        e    == E - 1023
        m53  == <<1>> \o SubSeq(Bits(bs), 13, 64)
        frac == IF e < 52 THEN SubSeq(m53, e + 2, 53) ELSE <<>>
        int  == IF e < 52 THEN SubSeq(m53, 1, e + 1) ELSE m53 \o Zeros(e - 52)
        pad  == Zeros((8 - (Len(int) % 8)) % 8) \o int
    IN  IF IsZeroFloat(bs) THEN [ok |-> TRUE, val |-> Pos(<<>>)]
        ELSE IF E = 0 \/ E = 2047 \/ e < 0 THEN [ok |-> FALSE, val |-> Pos(<<>>)]
        ELSE IF \E i \in 1..Len(frac) : frac[i] = 1 THEN [ok |-> FALSE, val |-> Pos(<<>>)]
        ELSE [ok |-> TRUE, val |-> [neg |-> F64Sign(bs) = 1, mag |-> BitsToBig(pad)]]

IsNumber(a) == a.t \in {"bool", "int", "float"}

\* the int a bool or an int stands for in a comparison
AsInt(a) == IF a.t = "bool" THEN (IF a.v THEN Pos(<<1>>) ELSE Pos(<<>>)) ELSE a.v

NumEq(a, b) ==
    IF a.t = "float" /\ b.t = "float"
    THEN ~IsNaN(a.v) /\ ~IsNaN(b.v) /\ (a.v = b.v \/ (IsZeroFloat(a.v) /\ IsZeroFloat(b.v)))
    ELSE IF a.t = "float" THEN FloatAsInt(a.v).ok /\ FloatAsInt(a.v).val = AsInt(b)
    ELSE IF b.t = "float" THEN FloatAsInt(b.v).ok /\ FloatAsInt(b.v).val = AsInt(a)
    ELSE AsInt(a) = AsInt(b)

\* a == b
RECURSIVE PyEq(_, _)
PyEq(a, b) ==
    IF IsNumber(a) /\ IsNumber(b) THEN NumEq(a, b)
    ELSE IF a.t # b.t THEN FALSE
    ELSE IF a.t \in {"tuple", "list"}
    THEN Len(a.v) = Len(b.v) /\ \A i \in 1..Len(a.v) : PyEq(a.v[i], b.v[i])
    ELSE a.v = b.v

\* a fault: no key is ever found in d
KeyNeverIn(k, d) == FALSE

\* k in d
KeyIn(k, d) == \E i \in 1..Len(d) : PyEq(d[i][1], k)

\* a fault: the list itself made a tuple, and the lists inside it left as they are
_shallow_list_to_tuple(o) == IF o.t = "list" THEN PyTuple(o.v) ELSE o

RECURSIVE _deep_list_to_tuple(_)
_deep_list_to_tuple(o) ==
    IF o.t = "list" THEN PyTuple([i \in 1..Len(o.v) |-> _deep_list_to_tuple(o.v[i])])
    ELSE o

(***************************************************************************)
(* mp_load.py, continued                                                   *)
(***************************************************************************)
\* (mpload(fp, options) for i in range(length)), consumed by tuple() or list()
RECURSIVE UnpackElements(_, _, _, _)
UnpackElements(cx, st, length, l) ==
    IF length = <<>> THEN Return(l, st)
    ELSE LET More(e) ==
                 IF e.err # "none" THEN e
                 ELSE UnpackElements(cx, e.st, BigDec(length), Append(l, e.val))
         IN  More(mpload(cx, st))

\* a fault: a list whatever use_tuple says
ListOf(g, opts) == PyList(g)

\* tuple(g) if options.get("use_tuple") else list(g)
TupleOrList(g, opts) == IF opts.use_tuple THEN PyTuple(g) ELSE PyList(g)

_unpack_array(code, cx, st) ==
    LET ic  == code[1]
        len == IF (ic \div 16) * 16 = \h90 THEN Return(IntOf(ic % 16), st)
               ELSE IF ic = \hDC THEN _re0(">H", cx, st, 2)
               ELSE IF ic = \hDD THEN _re0(">I", cx, st, 4)
               ELSE Raise("Logic error", st)
        Made(g) ==
            IF g.err # "none" THEN g
            ELSE Return(TupleOrList(g.val, cx.opts), g.st)
        Body(length) ==
            IF length.err # "none" THEN length
            ELSE Made(UnpackElements(cx, length.st, length.val.v.mag, <<>>))
    IN  Body(len)

\* a fault: the value is read before the key is tested
RECURSIVE UnpackItemsValueFirst(_, _, _, _)
UnpackItemsValueFirst(cx, st, length, d) ==
    IF length = <<>> THEN Return(d, st)
    ELSE LET Value(k, k0) ==
                 LET Store(v) ==
                         IF v.err # "none" THEN v
                         ELSE IF ~Hashable(k) THEN RaiseWith("UnhashableKeyException", k, v.st)
                         ELSE IF KeyIn(k, d) THEN RaiseWith("DuplicateKeyException", k, v.st)
                         ELSE UnpackItemsValueFirst(cx, v.st, BigDec(length),
                                                    Append(d, <<k, v.val>>))
                 IN  Store(mpload(cx, k0.st))
             Key(k0) ==
                 IF k0.err # "none" THEN k0
                 ELSE
                 Value(IF k0.val.t = "list" THEN _deep_list_to_tuple(k0.val) ELSE k0.val, k0)
         IN  Key(mpload(cx, st))

\* for _ in range(length): the body of the loop of _unpack_map
RECURSIVE UnpackItems(_, _, _, _)
UnpackItems(cx, st, length, d) ==
    IF length = <<>> THEN Return(d, st)
    ELSE LET Value(k, k0) ==
                 LET Store(v) ==
                         IF v.err # "none" THEN v
                         ELSE UnpackItems(cx, v.st, BigDec(length), Append(d, <<k, v.val>>))
                 IN  IF ~Hashable(k) THEN RaiseWith("UnhashableKeyException", k, k0.st)
                     ELSE IF KeyIn(k, d) THEN RaiseWith("DuplicateKeyException", k, k0.st)
                     ELSE Store(mpload(cx, k0.st))
             Key(k0) ==
                 IF k0.err # "none" THEN k0
                 ELSE
                 Value(IF k0.val.t = "list" THEN _deep_list_to_tuple(k0.val) ELSE k0.val, k0)
         IN  Key(mpload(cx, st))

_unpack_map(code, cx, st) ==
    LET ic  == code[1]
        len == IF (ic \div 16) * 16 = \h80 THEN Return(IntOf(ic % 16), st)
               ELSE IF ic = \hDE THEN _re0(">H", cx, st, 2)
               ELSE IF ic = \hDF THEN _re0(">I", cx, st, 4)
               ELSE Raise("Logic error", st)
        Made(d) ==
            IF d.err # "none" THEN d
            ELSE
            Return(IF cx.opts.use_ordered_dict THEN PyODict(d.val) ELSE PyDict(d.val), d.st)
        Body(length) ==
            IF length.err # "none" THEN length
            ELSE Made(UnpackItems(cx, length.st, length.val.v.mag, <<>>))
    IN  Body(len)

\* (None, 0, False, True)[ic - 0xC0]
NilTable == <<PyNone, IntOf(0), PyBool(FALSE), PyBool(TRUE)>>

\* a fault: 0xC1 looked up in the table like its neighbours
ReservedUnchecked(code, st) == Return(NilTable[code[1] - \hC0 + 1], st)

\* the tags 0xC0 to 0xC3: if ic == 0xC1: raise ...; return (None, 0, False, True)[...]
Reserved(code, st) ==
    IF code[1] = \hC1 THEN Raise("ReservedCodeException", st)
    ELSE Return(NilTable[code[1] - \hC0 + 1], st)

\* mpload after its first line: the dispatch on the tag byte
Dispatch(code, cx, st) ==
    LET ic == code[1]
    IN  IF ic <= \h7F \/ (\hCC <= ic /\ ic <= \hD3) \/ (\hE0 <= ic /\ ic <= \hFF)
        THEN _unpack_integer(code, cx, st)
        ELSE IF ic <= \hC9
        THEN IF ic <= \hC3
             THEN IF ic <= \h8F THEN _unpack_map(code, cx, st)
                  ELSE IF ic <= \h9F THEN _unpack_array(code, cx, st)
                  ELSE IF ic <= \hBF THEN _unpack_string(code, cx, st)
                  ELSE Reserved(code, st)
             ELSE IF ic <= \hC6 THEN _unpack_binary(code, cx, st)
             ELSE IF cx.drv = "mp_load" THEN _unpack_ext(code, cx, st)
             ELSE Return(Coroutine(st), st)
        ELSE IF ic <= \hCB THEN _unpack_float(code, cx, st)
        ELSE IF ic <= \hD8
        THEN IF cx.drv = "mp_load" THEN _unpack_ext(code, cx, st)
             ELSE as_unpack_ext(code, cx, st)
        ELSE IF ic <= \hDB THEN _unpack_string(code, cx, st)
        ELSE IF ic <= \hDD THEN _unpack_array(code, cx, st)
        ELSE _unpack_map(code, cx, st)

mpload(cx, st) ==
    LET Tag(code) ==
            IF code.err # "none" THEN code
            ELSE
            Dispatch(code.val.v, cx, [code.st EXCEPT !.tags = Append(@, code.val.v[1])])
    IN  Tag(Fetch(cx, st, <<1>>))

\* load(fp, **options)
load(f, opts) == mpload(Context(f, opts, "mp_load"), Start)

\* loads(s, **options), s a bytes
loads(s, opts) == mpload(Context(BytesIO(s), opts, "mp_load"), Start)

\* await aload(fp, options)
aload(f, opts) == mpload(Context(f, opts, "as_load"), Start)

\* await aloader(fp, options).load()
aloader_load(f, opts) == mpload(Context(f, opts, "as_loader"), Start)

(***************************************************************************)
(* The calls the model makes.  A call of dumps packs one object into a     *)
(* fresh BytesIO; loads then unpacks what was written.                      *)
(***************************************************************************)
\* the sequences over S of at most n elements
SeqsUpTo(S, n) == UNION {[1..k -> S] : k \in 0..n}

\* 2^k - 1 as a magnitude, k a multiple of 8
Ones(k) == Rep(255, k \div 8)

\* x + 1 for a magnitude x
BigInc(x) == Norm(IncBytes(<<0>> \o x))

IntSamples ==
    {IntOf(n) : n \in {0, 1, 127, 128, 255, 256, 65535, 65536,
                       0 - 1, 0 - 32, 0 - 33, 0 - 128, 0 - 129, 0 - 32768, 0 - 32769}}
    \cup {PyInt(FALSE, m) : m \in {Ones(32), Pow2(32), Ones(64), Pow2(64), BigInc(Pow2(64))}}
    \cup {PyInt(TRUE, m) : m \in {Pow2(31), BigInc(Pow2(31)), Pow2(63), BigInc(Pow2(63)),
                                  Ones(64)}}

\* "", "A", "e-acute", "euro A", one emoji, 31 and 32 letters, 8 emoji (32 bytes of UTF-8)
StrSamples ==
    {PyStr(<<>>), PyStr(<<65>>), PyStr(<<233>>), PyStr(<<8364, 65>>), PyStr(<<128512>>),
     PyStr(Rep(65, 31)), PyStr(Rep(65, 32)), PyStr(Rep(128512, 8))}

BytesSamples == {PyBytes(<<>>), PyBytes(<<0>>), PyBytes(<<255, 128>>), PyBytes(Rep(65, 32))}

\* what a list or a tuple of the model holds
Elems ==
    {PyNone, PyBool(TRUE), IntOf(1), IntOf(0 - 33), PyStr(<<233>>), PyBytes(<<0>>),
     PyList(<<IntOf(1), PyStr(<<65>>)>>), PyTuple(<<PyNone>>),
     PyDict(<<<<IntOf(1), PyList(<<>>)>>>>), PyODict(<<<<PyStr(<<65>>), PyNone>>>>),
     PyDict(<<<<PyTuple(<<IntOf(1), PyTuple(<<>>)>>), PyBool(FALSE)>>>>),
     PyInt(FALSE, Pow2(64))}

\* the keys and the values of a dict of the model
Keys ==
    {IntOf(1), IntOf(0 - 1), PyBool(TRUE), PyStr(<<65>>), PyBytes(<<65>>), PyNone,
     PyTuple(<<IntOf(1), PyTuple(<<PyStr(<<65>>)>>)>>)}

Vals == {PyNone, IntOf(256), PyList(<<IntOf(1), PyList(<<>>)>>)}

\* no two keys of a dict are equal
DistinctKeys(items) ==
    \A i, j \in 1..Len(items) : i < j => ~PyEq(items[i][1], items[j][1])

ItemSeqs == {items \in SeqsUpTo(Keys \X Vals, MaxSeq) : DistinctKeys(items)}

\* 15 and 16 elements, 15 and 16 entries, and objects no packer takes
LongSamples ==
    {PyList(Rep(IntOf(5), 15)), PyList(Rep(IntOf(5), 16)), PyTuple(Rep(PyNone, 16)),
     PyDict([i \in 1..15 |-> <<IntOf(i), PyNone>>]),
     PyODict([i \in 1..16 |-> <<IntOf(i), IntOf(5)>>]),
     PyObject("set"), PyList(<<IntOf(1), PyObject("set"), IntOf(3)>>)}

Objects ==
    {PyNone, PyBool(FALSE), PyBool(TRUE)} \cup IntSamples \cup StrSamples \cup BytesSamples
    \cup {PyList(es) : es \in SeqsUpTo(Elems, MaxSeq)}
    \cup {PyTuple(es) : es \in SeqsUpTo(Elems, MaxSeq)}
    \cup {PyDict(items) : items \in ItemSeqs}
    \cup {PyODict(items) : items \in ItemSeqs}
    \cup LongSamples

\* the options a decode is called with
DecodeOptions ==
    {[DefaultOptions EXCEPT !.use_tuple = ut, !.use_ordered_dict = uo] :
        ut \in BOOLEAN, uo \in BOOLEAN}

Init ==
    /\ pc = "start"
    /\ obj = PyNone
    /\ options = DefaultOptions
    /\ fp = BytesIO(<<>>)
    /\ ret = Wrote(<<>>)
    /\ registry = EmptyRegistry
    /\ tasks = <<>>

\* s = dumps(obj)
Dumps ==
    /\ pc = "start"
    /\ \E o \in Objects :
        LET r == dumps(o, DefaultOptions)
        IN  /\ obj' = o
            /\ fp' = BytesIO(r.out)
            /\ ret' = r
    /\ pc' = "dumped"
    /\ UNCHANGED <<options, registry, tasks>>

\* loads(s, **options) of the bytes a call has just written
Loads ==
    /\ pc \in {"dumped", "ext"}
    /\ ret.err = "none"
    /\ \E opts \in DecodeOptions :
        /\ options' = opts
        /\ ret' = loads(fp.buf, opts)
    /\ pc' = IF pc = "dumped" THEN "loaded" ELSE "extloaded"
    /\ UNCHANGED <<obj, fp, registry, tasks>>

\* the lengths the headers are tried at: around 16, 32, 2^8, 2^16 and 2^32
Lengths ==
    {NatToBig(n) : n \in {0, 1, 15, 16, 17, 31, 32, 33, 255, 256, 257, 65535, 65536}}
    \cup {Ones(32), Pow2(32), BigInc(Pow2(32))}

\* the type codes _pack_ext is called with
ExtCodes == {0 - 129, 0 - 128, 0 - 1, 0, 5, 127, 128, 255}

\* an object known by its kind and its measure alone: a str of len UTF-8 bytes, a bytes
\* of len bytes, a list of len elements, a dict of len entries, ext data of len bytes
Sized(kind, len, type) == [t |-> "sized", v |-> [kind |-> kind, len |-> len, type |-> type]]

\* the header mpdump writes for an object of that kind and measure
PackSized ==
    /\ pc = "start"
    /\ \E kind \in {"str", "bytes", "list", "dict", "ext"}, len \in Lengths, type \in ExtCodes :
        /\ kind # "ext" => type = 0
        /\ obj' = Sized(kind, len, type)
        /\ ret' = IF kind = "str" THEN _pack_string_header(len)
                  ELSE IF kind = "bytes" THEN _pack_binary_header(len)
                  ELSE IF kind = "list" THEN _pack_array_header(len)
                  ELSE IF kind = "dict" THEN _pack_map_header(len)
                  ELSE _pack_ext_header(type, len)
    /\ fp' = BytesIO(ret'.out)
    /\ pc' = "header"
    /\ UNCHANGED <<options, registry, tasks>>

\* _pack_ext(otype, odata, fp) into a fresh BytesIO
PackExt ==
    /\ pc = "start"
    /\ \E otype \in ExtCodes, n \in 0..MaxExt :
        LET odata == [i \in 1..n |-> i]
            r     == _pack_ext(otype, odata)
        IN  /\ obj' = [t |-> "Ext", v |-> [type |-> otype, data |-> odata]]
            /\ fp' = BytesIO(r.out)
            /\ ret' = r
    /\ pc' = "ext"
    /\ UNCHANGED <<options, registry, tasks>>

NextDump == Dumps \/ PackSized \/ PackExt \/ Loads

SpecDump == Init /\ [][NextDump]_vars

(***************************************************************************)
(* The decodes the model makes.  A source is opened over an input, cut     *)
(* into the chunks its reads will return; load, aload or aloader.load then *)
(* decodes from it; where load used up an input, load is tried again on a  *)
(* source that ends early.                                                 *)
(***************************************************************************)
\* the bytes the enumerated inputs are made of: an int, the tags of an empty map and of
\* a map of 1 entry, an array of 1 element, a str of 2 bytes, the reserved code and an
\* unsigned 16-bit int
Alphabet == {\h01, \h80, \h81, \h91, \hA2, \hC1, \hCD}

\* inputs of the test suite and inputs for the tags the alphabet leaves out
Fixtures ==
    {<<\hC1>>, <<\hA1, \h80>>, <<\h92, \hC1, \hC0>>,
     <<\h82, \h01, \hC3, \h81, \h01, \h01, \hC2>>,
     <<\h81, \h93, \h01, \h02, \h80, \hC3>>,
     <<\h82, \h01, \hC3, \h01, \hC2>>,
     <<\h81, \h93, \hA3, \h66, \h6F, \h6F, \h93, \h01, \h02, \h03, \h03, \hFB>>,
     <<\h82, \h91, \h01, \hC0, \h91, \h01, \hC0>>,
     <<\hCA, \h3F, \h80, \h00, \h00>>,
     <<\hCB, \h40, \h09, \h21, \hFB, \h54, \h44, \h2D, \h18>>,
     <<\hD3, \h80, \h00, \h00, \h00, \h00, \h00, \h00, \h00>>,
     <<\hCE, \h00, \h01, \h00, \h00>>, <<\hD0, \h80>>,
     <<\hD4, \h05, \h01>>, <<\hD5, \hFF, \h01, \h02>>, <<\hC7, \h00, \h05>>,
     <<\hC7, \h03, \h05, \h01, \h02, \h03>>, <<\hC8, \h00, \h01, \h05, \h01>>,
     <<\h81, \hC7, \h00, \h01, \hC0>>,
     <<\hC4, \h02, \h01, \h02>>, <<\hC5, \h00, \h01, \hFF>>,
     <<\hD9, \h01, \h41>>, <<\hDA, \h00, \h02, \hC3, \hA9>>, <<\hA0>>,
     <<\hDC, \h00, \h01, \hC0>>, <<\hDD, \h00, \h00, \h00, \h02, \h01, \hC1>>,
     <<\hDE, \h00, \h01, \h01, \hC0>>, <<\hDF, \h00, \h00, \h00, \h01, \hC1, \hC0>>}

Wires == SeqsUpTo(Alphabet, MaxWire) \cup Fixtures

\* the ways a source cuts w into chunks: every way for a short w; none, one byte per
\* read and two bytes per read for a long one
SplitsOf(w) ==
    IF Len(w) <= MaxWire + 1 THEN SUBSET (1..(Len(w) - 1))
    ELSE {{}, 1..(Len(w) - 1), {c \in 1..(Len(w) - 1) : c % 2 = 0}}

\* a source is opened over an input
Open ==
    /\ pc = "start"
    /\ \E w \in Wires :
        \E splits \in SplitsOf(w) : fp' = Source(w, splits)
    /\ pc' = "opened"
    /\ UNCHANGED <<obj, options, ret, registry, tasks>>

\* the keys and the values of the maps the model writes entry by entry; a key may be
\* an array or a map, and a map may repeat a key, which no dict could
WireKeys ==
    {IntOf(1), PyBool(TRUE), PyStr(<<65>>),
     PyList(<<IntOf(1)>>), PyList(<<PyBool(TRUE)>>), PyList(<<PyList(<<IntOf(1)>>)>>),
     PyDict(<<>>), PyList(<<PyList(<<PyDict(<<>>)>>)>>)}

WireVals == {PyNone, PyList(<<IntOf(1)>>)}

\* where the map stands in the input: alone, as the element of an array, or as the
\* value of the key 1 of an outer map
Wraps == {"top", "element", "value"}

WireMap(wrap, items) == [t |-> "wiremap", v |-> [wrap |-> wrap, items |-> items]]

\* the input that holds the map: its header, then each key and its value in turn
WireOf(wrap, items) ==
    LET m == _pack_map(items, DefaultOptions).out
    IN  IF wrap = "top" THEN m
        ELSE IF wrap = "element" THEN <<\h91>> \o m
        ELSE <<\h81, \h01>> \o m

\* a BytesIO is opened over an input that holds a map of those entries; obj keeps them
OpenMap ==
    /\ pc = "start"
    /\ \E wrap \in Wraps, items \in SeqsUpTo(WireKeys \X WireVals, MaxSeq) :
        /\ obj' = WireMap(wrap, items)
        /\ fp' = BytesIO(WireOf(wrap, items))
    /\ pc' = "opened"
    /\ UNCHANGED <<options, ret, registry, tasks>>

\* ext_handlers={5: h5, 16: h16}
Handlers == (5 :> "h5") @@ (16 :> "h16")

LoadOptions ==
    DecodeOptions \cup {[DefaultOptions EXCEPT !.use_tuple = TRUE, !.use_ordered_dict = TRUE,
                                               !.allow_invalid_utf8 = TRUE],
                        [DefaultOptions EXCEPT !.ext_handlers = Handlers]}

\* load(fp, **options)
Load ==
    /\ pc = "opened"
    /\ \E opts \in LoadOptions :
        /\ options' = opts
        /\ ret' = load(fp, opts)
    /\ pc' = "loaded"
    /\ UNCHANGED <<obj, fp, registry, tasks>>

\* the options a streaming decode is called with
StreamOptions ==
    {DefaultOptions, [DefaultOptions EXCEPT !.use_tuple = TRUE, !.observer = TRUE],
     [DefaultOptions EXCEPT !.ext_handlers = Handlers]}

\* the source is over one of the enumerated inputs, not over a map written entry by entry
Enumerated == obj.t # "wiremap"

\* the streams of the model carry the enumerated inputs, whole or one byte per read
IsStream == Enumerated /\ fp.splits \in {{}, 1..(Len(fp.buf) - 1)}

\* await aload(fp, **options), fp a StreamReader
Aload ==
    /\ pc = "opened"
    /\ IsStream
    /\ \E opts \in StreamOptions :
        /\ options' = opts
        /\ ret' = aload(fp, opts)
    /\ pc' = "aloaded"
    /\ UNCHANGED <<obj, fp, registry, tasks>>

\* await aloader(fp, **options).load()
AloaderLoad ==
    /\ pc = "opened"
    /\ IsStream
    /\ \E opts \in StreamOptions :
        /\ options' = opts
        /\ ret' = aloader_load(fp, opts)
    /\ pc' = "aloader"
    /\ UNCHANGED <<obj, fp, registry, tasks>>

\* a decode has returned a value and used up its input
Complete == ret.err = "none" /\ ret.st.pos = Len(fp.buf)

\* load again from a source that ends after k bytes of an input that decoded in full,
\* cut as before; obj keeps the value the whole input gave
LoadTruncated ==
    /\ pc = "loaded"
    /\ Enumerated
    /\ Complete
    /\ \E k \in 0..(Len(fp.buf) - 1) :
        /\ fp' = Source(SubSeq(fp.buf, 1, k), {c \in fp.splits : c < k})
        /\ ret' = load(fp', options)
    /\ obj' = ret.val
    /\ pc' = "truncated"
    /\ UNCHANGED <<options, registry, tasks>>

NextLoad == Open \/ OpenMap \/ Load \/ Aload \/ AloaderLoad \/ LoadTruncated

SpecLoad == Init /\ [][NextLoad]_vars

(***************************************************************************)
(* Every tag: a source is opened over each of the 256 byte values followed *)
(* by bytes to decode, and load, aload or aloader.load decodes from it.    *)
(***************************************************************************)
\* what follows the tag: lengths of 0, 0 and 1 and then small ints; the bytes 1 to 32;
\* the tag of an empty map and then bytes with the top bit set
Followers ==
    {<<0, 0, 0, 1>> \o [i \in 1..28 |-> i + 4], [i \in 1..32 |-> i],
     <<\h80>> \o [i \in 1..31 |-> \hFF]}

\* a source is opened over a tag and what follows it
OpenTag ==
    /\ pc = "start"
    /\ \E ic \in 0..255, rest \in Followers : fp' = BytesIO(<<ic>> \o rest)
    /\ pc' = "opened"
    /\ UNCHANGED <<obj, options, ret, registry, tasks>>

NextTags == OpenTag \/ Load \/ Aload \/ AloaderLoad

SpecTags == Init /\ [][NextTags]_vars

(***************************************************************************)
(* Calls with classes registered: ext_serializable registers up to MaxReg  *)
(* classes, then an object is packed and what was written is decoded, or a *)
(* source is opened over an input that holds ext data and is decoded.      *)
(***************************************************************************)
\* the type codes ext_serializable is called with
RegCodes == {0 - 129, 0 - 128, 16, 127, 128}

\* the classes it is called on, each with the native type it is to pack ("None" for a
\* class that packs its own instances)
Declarations ==
    {[cls |-> "Rectangle", example |-> "None"],
     [cls |-> "Square", example |-> "None"],
     [cls |-> "IncompleteClass", example |-> "None"],
     [cls |-> "IncompleteClass", example |-> "OrderedDict"],
     [cls |-> "mpk_odict.Tuple", example |-> "OrderedDict"],
     [cls |-> "mpk_tuple.Tuple", example |-> "tuple"]}

Registration(ext_type, cls, example) ==
    [t |-> "registration", v |-> [ext_type |-> ext_type, cls |-> cls, example |-> example]]

\* @ext_serializable(ext_type, example) class cls: ...; obj keeps the call
Register ==
    /\ pc \in {"start", "registered"}
    /\ Len(ext_class_to_type) < MaxReg
    /\ \E ext_type \in RegCodes, d \in Declarations :
        LET r == ext_serializable(registry, ext_type, d.cls)
        IN  /\ obj' = Registration(ext_type, d.cls, d.example)
            /\ ret' = [err |-> r.err, val |-> r.val]
            /\ registry' = IF r.err = "none"
                           THEN Associate(r.reg, ext_type, d.cls, d.example) ELSE r.reg
    /\ pc' = "registered"
    /\ UNCHANGED <<options, fp, tasks>>

\* IncompleteClass()
Incomplete == [t |-> "IncompleteClass", v |-> <<>>]

\* the bytes of the doubles 1.0 and 2.0
One == <<\h3F, \hF0, 0, 0, 0, 0, 0, 0>>

Two == <<\h40, 0, 0, 0, 0, 0, 0, 0>>

\* the objects packed: Square(5), Rectangle(2, 3), IncompleteClass(), an OrderedDict,
\* two tuples, a list that holds a tuple and a Square, an int, an object of a class
\* nothing knows, complex(1, 2), {1, 2, 3} and a bytearray
ExtObjects ==
    {Instance("Square", IntOf(5), IntOf(5)), Instance("Rectangle", IntOf(2), IntOf(3)),
     Incomplete, PyODict(<<<<IntOf(1), PyNone>>>>), PyTuple(<<>>), PyTuple(<<IntOf(1)>>),
     PyList(<<PyTuple(<<>>), Instance("Square", IntOf(5), IntOf(5))>>),
     IntOf(1), PyObject("complex"),
     PyComplex(One, Two), PySet({IntOf(1), IntOf(2), IntOf(3)}), PyByteArray(<<1, 2>>)}

\* s = dumps(obj)
DumpsRegistered ==
    /\ pc \in {"start", "registered"}
    /\ \E o \in ExtObjects :
        LET r == dumps(o, DefaultOptions)
        IN  /\ obj' = o
            /\ fp' = BytesIO(r.out)
            /\ ret' = r
    /\ pc' = "packed"
    /\ UNCHANGED <<options, registry, tasks>>

\* the bytes dumps returned are the input of a decode
OpenPacked ==
    /\ pc = "packed"
    /\ ret.err = "none"
    /\ pc' = "opened"
    /\ UNCHANGED <<obj, options, fp, ret, registry, tasks>>

\* inputs that hold ext data: the codes 16, 5 and -128 with one byte of payload, the
\* bytes of Square(5) of the test suite, the code 16 with no payload under the tag
\* 0xC7, and an array that holds ext data
ExtWires ==
    {<<\hD4, \h10, \h00>>, <<\hD4, \h05, \h01>>, <<\hD4, \h80, \h01>>,
     <<\hC7, \h03, \h10, \h92, \h05, \h05>>, <<\hC7, \h00, \h10>>,
     <<\h91, \hD4, \h10, \h00>>}

\* a source is opened over one of them, whole or one byte per read
OpenExt ==
    /\ pc \in {"start", "registered"}
    /\ \E w \in ExtWires :
        \E splits \in {{}, 1..(Len(w) - 1)} : fp' = Source(w, splits)
    /\ obj' = PyNone
    /\ ret' = Wrote(<<>>)
    /\ pc' = "opened"
    /\ UNCHANGED <<options, registry, tasks>>

\* the handler modules: each registers one class for one native type under one code
Modules ==
    {[ext_type |-> \h50, cls |-> "mpk_complex.Complex", example |-> "complex"],
     [ext_type |-> \h51, cls |-> "mpk_set.Set", example |-> "set"],
     [ext_type |-> \h52, cls |-> "mpk_tuple.Tuple", example |-> "tuple"],
     [ext_type |-> \h53, cls |-> "mpk_bytearray.ByteArray", example |-> "bytearray"],
     [ext_type |-> \h54, cls |-> "mpk_odict.Tuple", example |-> "OrderedDict"]}

\* import umsgpack.mpk_...: the module's decorator registers its class; a module that
\* was imported before is not run again
Import ==
    /\ pc \in {"start", "registered"}
    /\ Len(ext_class_to_type) < MaxReg
    /\ \E m \in Modules :
        LET r == ext_serializable(registry, m.ext_type, m.cls)
        IN  /\ ~HasClass(ext_class_to_type, m.cls)
            /\ obj' = Registration(m.ext_type, m.cls, m.example)
            /\ ret' = [err |-> r.err, val |-> r.val]
            /\ registry' = IF r.err = "none"
                           THEN Associate(r.reg, m.ext_type, m.cls, m.example) ELSE r.reg
    /\ pc' = "registered"
    /\ UNCHANGED <<options, fp, tasks>>

NextExt ==
    Register \/ DumpsRegistered \/ OpenPacked \/ OpenExt \/ Load \/ Aload \/ AloaderLoad

SpecExt == Init /\ [][NextExt]_vars

\* handler modules are imported, an object is packed, and what was written is decoded
NextMpk == Import \/ DumpsRegistered \/ OpenPacked \/ Load

SpecMpk == Init /\ [][NextMpk]_vars

(***************************************************************************)
(* Properties of the encoder, checked under SpecDump.                      *)
(***************************************************************************)
\* v is built from None, bools, ints of [-2^63, 2^64 - 1], strs, bytes, and lists,
\* tuples and dicts over these
RECURSIVE InDomain(_)
InDomain(v) ==
    IF v.t \in {"None", "bool", "str", "bytes"} THEN TRUE
    ELSE IF v.t = "int"
    THEN IF v.v.neg THEN ~BigLT(Pow2(63), v.v.mag) ELSE BigLT(v.v.mag, Pow2(64))
    ELSE IF v.t \in {"list", "tuple"} THEN \A i \in 1..Len(v.v) : InDomain(v.v[i])
    ELSE IF v.t \in {"dict", "OrderedDict"}
    THEN \A i \in 1..Len(v.v) : InDomain(v.v[i][1]) /\ InDomain(v.v[i][2])
    ELSE FALSE

\* the containers of v are those the options name: tuples where use_tuple is set and
\* lists where it is not, OrderedDicts where use_ordered_dict is set and dicts where it
\* is not; inside a key every sequence is a tuple, a list being no key
RECURSIVE Matches(_, _, _)
Matches(v, opts, inKey) ==
    IF v.t \in {"list", "tuple"}
    THEN /\ v.t = (IF inKey \/ opts.use_tuple THEN "tuple" ELSE "list")
         /\ \A i \in 1..Len(v.v) : Matches(v.v[i], opts, inKey)
    ELSE IF v.t \in {"dict", "OrderedDict"}
    THEN /\ v.t = (IF opts.use_ordered_dict THEN "OrderedDict" ELSE "dict")
         /\ \A i \in 1..Len(v.v) :
                Matches(v.v[i][1], opts, TRUE) /\ Matches(v.v[i][2], opts, FALSE)
    ELSE TRUE

\* C1: dumps packs every value built from None, bools, ints of [-2^63, 2^64 - 1], strs,
\* bytes and containers nested over these, and loads of the bytes, called with the
\* use_tuple and use_ordered_dict that match the containers of the value, returns a
\* value equal to it.
C1_RoundTrip ==
    /\ (pc = "dumped" /\ InDomain(obj)) => ret.err = "none"
    /\ (pc = "loaded" /\ InDomain(obj) /\ Matches(obj, options, FALSE))
        => (ret.err = "none" /\ ret.val = obj /\ ret.st.pos = Len(fp.buf))

\* an OrderedDict of two entries, one of them a nested tuple key with a nested list
\* value, has made the round trip
C1_Witness ==
    /\ pc = "loaded"
    /\ obj.t = "OrderedDict" /\ Len(obj.v) = 2
    /\ \E i \in 1..2 : obj.v[i][1].t = "tuple" /\ obj.v[i][2].t = "list"
    /\ options.use_ordered_dict /\ ~options.use_tuple
    /\ ret.err = "none" /\ ret.val = obj

\* a + b + c for two byte strings of one length, as a byte string one byte longer
RECURSIVE AddBytes(_, _, _)
AddBytes(a, b, c) ==
    IF a = <<>> THEN <<c>>
    ELSE LET n   == Len(a)
             sum == a[n] + b[n] + c
         IN  AddBytes(SubSeq(a, 1, n - 1), SubSeq(b, 1, n - 1), sum \div 256) \o <<sum % 256>>

\* the magnitude m on w bytes, for m < 2^(8w)
OnBytes(m, w) == Zeros(w - Len(m)) \o m

\* the widths, in bytes, of the integer forms
IntWidths == {1, 2, 4, 8}

\* w bytes hold x: unsigned for x >= 0 (x < 2^(8w)), two's complement for x < 0
\* (x >= -2^(8w-1))
Holds(x, w) ==
    IF x.neg THEN x.mag = Pow2(8 * w - 1) \/ BigLT(x.mag, Pow2(8 * w - 1))
    ELSE Len(x.mag) <= w

\* the payload bs stands for x: as an unsigned number if x >= 0, and if x < 0 as the
\* number that adds to -x to give 2^(8w)
StandsFor(bs, x) ==
    IF x.neg THEN AddBytes(bs, OnBytes(x.mag, Len(bs)), 0) = <<1>> \o Zeros(Len(bs))
    ELSE bs = OnBytes(x.mag, Len(bs))

\* x is in 0..127 or in -32..-1
OneByte(x) ==
    IF x.neg THEN BigLT(x.mag, <<33>>) ELSE BigLT(x.mag, <<128>>)

\* the position of w among the widths
WidthIndex(w) == IF w = 1 THEN 0 ELSE IF w = 2 THEN 1 ELSE IF w = 4 THEN 2 ELSE 3

\* C2: an int of 0..127 or -32..-1 is packed as the one byte that stands for it; any
\* other int that 8 bytes hold is packed as the tag of the smallest of the widths 1, 2,
\* 4, 8 bytes that holds it (0xCC..0xCF unsigned for n >= 0, 0xD0..0xD3 signed for
\* n < 0) and its big-endian payload of that width; an int fails, with
\* UnsupportedTypeException, exactly when n < -2^63 or n >= 2^64.
C2_IntegerEncoding ==
    (pc = "dumped" /\ obj.t = "int") =>
        LET x == obj.v
        IN  IF OneByte(x) THEN ret.err = "none" /\ Len(ret.out) = 1 /\ StandsFor(ret.out, x)
            ELSE IF \E w \in IntWidths : Holds(x, w)
            THEN LET w == CHOOSE w \in IntWidths :
                              Holds(x, w) /\ \A u \in IntWidths : u < w => ~Holds(x, u)
                 IN  /\ ret.err = "none"
                     /\ Len(ret.out) = 1 + w
                     /\ ret.out[1] = (IF x.neg THEN \hD0 ELSE \hCC) + WidthIndex(w)
                     /\ StandsFor(Tail(ret.out), x)
            ELSE /\ ret.err = "UnsupportedTypeException"
                 /\ IF x.neg THEN BigLT(Pow2(63), x.mag) ELSE ~BigLT(x.mag, Pow2(64))

\* -2^31 - 1 has been packed, in the signed 64-bit form
C2_Witness ==
    /\ pc = "dumped"
    /\ obj = PyInt(TRUE, BigInc(Pow2(31)))
    /\ ret.err = "none" /\ ret.out[1] = \hD3 /\ Len(ret.out) = 9

\* the byte strings of a sequence, one after the other
RECURSIVE Concat(_)
Concat(ss) == IF ss = <<>> THEN <<>> ELSE Head(ss) \o Concat(Tail(ss))

\* the header of a container of n elements (n a magnitude below 2^32): the fixed tag
\* fix | n below 16, the tag wide and 2 bytes of length below 2^16, the tag wide + 1
\* and 4 bytes of length otherwise
ContainerHeader(fix, wide, n) ==
    IF Len(n) <= 1 /\ BigToNat(n) < 16 THEN <<fix + BigToNat(n)>>
    ELSE IF Len(n) <= 2 THEN <<wide>> \o OnBytes(n, 2)
    ELSE <<wide + 1>> \o OnBytes(n, 4)

\* the elements of a container in iteration order, a dict giving each key and then
\* its value
InOrder(o) ==
    IF o.t \in {"list", "tuple"} THEN o.v
    ELSE [i \in 1..(2 * Len(o.v)) |-> o.v[(i + 1) \div 2][IF i % 2 = 1 THEN 1 ELSE 2]]

\* C3: a list or a tuple of n elements is packed as the header 0x90 | n for n < 16,
\* 0xDC and n on 2 bytes for 16 <= n < 2^16, 0xDD and n on 4 bytes for
\* 2^16 <= n < 2^32, and a dict of n entries as 0x80 | n, 0xDE or 0xDF likewise;
\* after the header come the packed elements in iteration order, each key of a dict
\* just before its value.
C3_ContainerHeaders ==
    /\ (pc = "dumped" /\ obj.t \in {"list", "tuple", "dict", "OrderedDict"}) =>
        LET es    == InOrder(obj)
            parts == [i \in 1..Len(es) |-> dumps(es[i], DefaultOptions)]
            isMap == obj.t \in {"dict", "OrderedDict"}
            head  == ContainerHeader(IF isMap THEN \h80 ELSE \h90,
                                     IF isMap THEN \hDE ELSE \hDC, NatToBig(Len(obj.v)))
        IN  (\A i \in 1..Len(es) : parts[i].err = "none") =>
                /\ ret.err = "none"
                /\ ret.out = head \o Concat([i \in 1..Len(es) |-> parts[i].out])
    /\ (pc = "header" /\ obj.v.kind \in {"list", "dict"} /\ Len(obj.v.len) <= 4) =>
        /\ ret.err = "none"
        /\ ret.out = ContainerHeader(IF obj.v.kind = "dict" THEN \h80 ELSE \h90,
                                     IF obj.v.kind = "dict" THEN \hDE ELSE \hDC, obj.v.len)

\* a list of 16 ints has been packed, and starts 0xDC 0x00 0x10
C3_Witness ==
    /\ pc = "dumped"
    /\ obj.t = "list" /\ Len(obj.v) = 16
    /\ ret.err = "none" /\ SubSeq(ret.out, 1, 4) = <<\hDC, \h00, \h10, \h05>>

\* the number of bytes of the UTF-8 form of a str: 1 for a code point below 0x80, 2
\* below 0x800, 3 below 0x10000, 4 above
RECURSIVE Utf8Len(_)
Utf8Len(cps) ==
    IF cps = <<>> THEN 0
    ELSE (IF Head(cps) < 128 THEN 1 ELSE IF Head(cps) < 2048 THEN 2
          ELSE IF Head(cps) < 65536 THEN 3 ELSE 4) + Utf8Len(Tail(cps))

\* the header of a str of L bytes of UTF-8, L a magnitude below 2^32
StrHeader(L) ==
    IF Len(L) <= 1 /\ BigToNat(L) <= 31 THEN <<\hA0 + BigToNat(L)>>
    ELSE IF Len(L) <= 1 THEN <<\hD9>> \o OnBytes(L, 1)
    ELSE IF Len(L) <= 2 THEN <<\hDA>> \o OnBytes(L, 2)
    ELSE <<\hDB>> \o OnBytes(L, 4)

\* the header of a bytes of L bytes, L a magnitude below 2^32
BinHeader(L) ==
    IF Len(L) <= 1 THEN <<\hC4>> \o OnBytes(L, 1)
    ELSE IF Len(L) <= 2 THEN <<\hC5>> \o OnBytes(L, 2)
    ELSE <<\hC6>> \o OnBytes(L, 4)

\* C4: a str is packed under the header of its length L in bytes of UTF-8, not of its
\* number of characters: 0xA0 | L for L <= 31, 0xD9 and L on 1 byte for L < 2^8, 0xDA
\* and L on 2 bytes for L < 2^16, 0xDB and L on 4 bytes for L < 2^32, and it fails
\* for L >= 2^32; a bytes of L bytes is packed under 0xC4 and L on 1 byte for
\* L < 2^8, L = 0 included, 0xC5 for L < 2^16 and 0xC6 for L < 2^32.
C4_StringHeaders ==
    /\ (pc = "dumped" /\ obj.t = "str") =>
        LET head == StrHeader(NatToBig(Utf8Len(obj.v)))
        IN  /\ ret.err = "none"
            /\ Len(ret.out) = Len(head) + Utf8Len(obj.v)
            /\ SubSeq(ret.out, 1, Len(head)) = head
    /\ (pc = "dumped" /\ obj.t = "bytes") =>
        (ret.err = "none" /\ ret.out = BinHeader(NatToBig(Len(obj.v))) \o obj.v)
    /\ (pc = "header" /\ obj.v.kind = "str") =>
        IF Len(obj.v.len) <= 4 THEN ret.err = "none" /\ ret.out = StrHeader(obj.v.len)
        ELSE ret.err # "none"
    /\ (pc = "header" /\ obj.v.kind = "bytes" /\ Len(obj.v.len) <= 4) =>
        (ret.err = "none" /\ ret.out = BinHeader(obj.v.len))

\* a str of 8 characters that take 32 bytes of UTF-8 has been packed, under 0xD9 0x20
C4_Witness ==
    /\ pc = "dumped"
    /\ obj.t = "str" /\ Len(obj.v) = 8 /\ Utf8Len(obj.v) = 32
    /\ ret.err = "none" /\ SubSeq(ret.out, 1, 2) = <<\hD9, 32>> /\ Len(ret.out) = 34

\* the header of ext data of L bytes (L a magnitude below 2^32) under the type code c
ExtHeader(c, L) ==
    LET l == IF Len(L) <= 1 THEN BigToNat(L) ELSE 256
    IN  IF l \in {1, 2, 4, 8, 16}
        THEN <<IF l = 1 THEN \hD4 ELSE IF l = 2 THEN \hD5 ELSE IF l = 4 THEN \hD6
               ELSE IF l = 8 THEN \hD7 ELSE \hD8, c % 256>>
        ELSE IF Len(L) <= 1 THEN <<\hC7>> \o OnBytes(L, 1) \o <<c % 256>>
        ELSE IF Len(L) <= 2 THEN <<\hC8>> \o OnBytes(L, 2) \o <<c % 256>>
        ELSE <<\hC9>> \o OnBytes(L, 4) \o <<c % 256>>

\* C5: ext data of exactly 1, 2, 4, 8 or 16 bytes is packed under the fixed tag 0xD4,
\* 0xD5, 0xD6, 0xD7 or 0xD8, and data of any other length (0, 3, 5 to 7 and 9 to 15
\* included) under 0xC7, 0xC8 or 0xC9 and its length on 1, 2 or 4 bytes; in every
\* form the next byte is the type code modulo 256, and the decoder reads a code of
\* -128..127 back as itself, a negative code as the same negative code.
C5_ExtHeader ==
    /\ (pc = "ext") =>
        /\ ret.err = "none"
        /\ ret.out = ExtHeader(obj.v.type, NatToBig(Len(obj.v.data))) \o obj.v.data
    /\ (pc = "header" /\ obj.v.kind = "ext" /\ Len(obj.v.len) <= 4) =>
        (ret.err = "none" /\ ret.out = ExtHeader(obj.v.type, obj.v.len))
    /\ (pc = "extloaded" /\ obj.v.type \in (0 - 128)..127) =>
        /\ ret.err = "UnsupportedTypeException"
        /\ ret.val = IntOf(obj.v.type)
        /\ ret.st.pos = Len(fp.buf)

\* ext data of 3 bytes under the type code -1 has been packed, under 0xC7 0x03 0xFF, and
\* the decoder has read the code -1 back
C5_Witness ==
    /\ pc = "extloaded"
    /\ obj.v.type = 0 - 1 /\ Len(obj.v.data) = 3
    /\ SubSeq(fp.buf, 1, 3) = <<\hC7, 3, 255>>
    /\ ret.val = IntOf(0 - 1)

(***************************************************************************)
(* Properties of the decoders, checked under SpecLoad.                     *)
(***************************************************************************)
\* a decode has run: load, aload, aloader.load, or load from a source that ends early
Decoded == pc \in {"loaded", "aloaded", "aloader", "truncated"}

\* C6: whenever a decoder reads 0xC1 where a tag stands, at the top or as an element
\* of an array, a key or a value of a map, the decode stops there and fails with
\* ReservedCodeException; this holds of load, of aload and of aloader.load, and none
\* of them raises the exception otherwise.
C6_ReservedCode ==
    Decoded =>
        LET tags == ret.st.tags
        IN  /\ \A i \in 1..Len(tags) :
                tags[i] = \hC1 => (i = Len(tags) /\ ret.err = "ReservedCodeException")
            /\ ret.err = "ReservedCodeException" =>
                (Len(tags) > 0 /\ tags[Len(tags)] = \hC1)

\* aloader.load has read 0xC1 as the value of a key of a map, one byte per read, and
\* has failed with ReservedCodeException
C6_Witness ==
    /\ pc = "aloader"
    /\ fp.buf = <<\h81, \h01, \hC1>> /\ fp.splits = {1, 2}
    /\ ret.st.tags = <<\h81, \h01, \hC1>>
    /\ ret.err = "ReservedCodeException"

\* k is a map, or an array that holds a map at some depth
RECURSIVE HoldsMap(_)
HoldsMap(k) ==
    \/ k.t \in {"dict", "OrderedDict"}
    \/ k.t \in {"list", "tuple"} /\ \E i \in 1..Len(k.v) : HoldsMap(k.v[i])

\* k with every array in it, at every depth, a tuple
RECURSIVE Frozen(_)
Frozen(k) ==
    IF k.t \in {"list", "tuple"} THEN PyTuple([i \in 1..Len(k.v) |-> Frozen(k.v[i])])
    ELSE k

\* the first entry of items whose key holds a map or equals the key of an entry before
\* it; 0 if there is none
FirstBad(items) ==
    LET bad == {j \in 1..Len(items) :
                    \/ HoldsMap(items[j][1])
                    \/ \E i \in 1..(j - 1) : PyEq(Frozen(items[i][1]), Frozen(items[j][1]))}
    IN  IF bad = {} THEN 0 ELSE SetMin(bad)

\* every map in v has keys that are pairwise different and that hold no map
RECURSIVE SoundMaps(_)
SoundMaps(v) ==
    IF v.t \in {"list", "tuple"} THEN \A i \in 1..Len(v.v) : SoundMaps(v.v[i])
    ELSE IF v.t \in {"dict", "OrderedDict"}
    THEN /\ \A i \in 1..Len(v.v) : ~HoldsMap(v.v[i][1]) /\ SoundMaps(v.v[i][2])
         /\ \A i, j \in 1..Len(v.v) : i < j => ~PyEq(v.v[i][1], v.v[j][1])
    ELSE TRUE

\* the map of a wiremap in the value its input decodes to
Unwrap(val, wrap) ==
    IF wrap = "top" THEN val ELSE IF wrap = "element" THEN val.v[1] ELSE val.v[1][2]

\* C7: the decode of a map fails at the first entry whose key is a map, or an array
\* that holds a map at any depth (UnhashableKeyException), or equals the key of an
\* earlier entry of the same map (DuplicateKeyException); a map with no such entry
\* decodes to a map with as many entries as its header announces; and every map in a
\* value a decoder returns has keys that are pairwise different.
C7_MapInvariants ==
    /\ (pc = "loaded" /\ obj.t = "wiremap") =>
        LET items == obj.v.items
            j     == FirstBad(items)
        IN  IF j = 0
            THEN /\ ret.err = "none"
                 /\ Len(Unwrap(ret.val, obj.v.wrap).v) = Len(items)
            ELSE IF HoldsMap(items[j][1]) THEN ret.err = "UnhashableKeyException"
            ELSE ret.err = "DuplicateKeyException"
    /\ (Decoded /\ ret.err = "none") => SoundMaps(ret.val)
    /\ (Decoded /\ ret.err = "none" /\ \h80 <= ret.st.tags[1] /\ ret.st.tags[1] <= \h8F) =>
        Len(ret.val.v) = ret.st.tags[1] - \h80

\* a map of two entries under the keys 1 and True, which are equal, has been decoded
\* as the value of the key 1 of an outer map, and the decode has failed with
\* DuplicateKeyException
C7_Witness ==
    /\ pc = "loaded"
    /\ obj.t = "wiremap" /\ obj.v.wrap = "value" /\ Len(obj.v.items) = 2
    /\ obj.v.items[1][1] = IntOf(1)
    /\ obj.v.items[2][1] = PyBool(TRUE)
    /\ ret.err = "DuplicateKeyException"

\* no list stands in k, at any depth
RECURSIVE NoList(_)
NoList(k) ==
    k.t # "list" /\ (k.t = "tuple" => \A i \in 1..Len(k.v) : NoList(k.v[i]))

\* the input {["foo", [1, 2, 3], 3]: -5} of the test suite, and the key it decodes to
FooInput == <<\h81, \h93, \hA3, \h66, \h6F, \h6F, \h93, \h01, \h02, \h03, \h03, \hFB>>

FooKey ==
    PyTuple(<<PyStr(<<102, 111, 111>>), PyTuple(<<IntOf(1), IntOf(2), IntOf(3)>>), IntOf(3)>>)

\* C8: a key that decodes to an array is made a tuple, and so is every array inside it,
\* before the key is tested for hashing and for a duplicate, whatever use_tuple says
\* and without touching the values: under the default options the key
\* ["foo", [1, 2, 3], 3] is stored as ("foo", (1, 2, 3), 3), and a key that is an array
\* equal to the array of an earlier key fails with DuplicateKeyException.
C8_ArrayKeys ==
    /\ (pc = "loaded" /\ fp.buf = FooInput /\ options = DefaultOptions) =>
        (ret.err = "none" /\ ret.val = PyDict(<<<<FooKey, IntOf(0 - 5)>>>>))
    /\ (pc = "loaded" /\ obj.t = "wiremap" /\ FirstBad(obj.v.items) = 0) =>
        LET items == obj.v.items
            m     == Unwrap(ret.val, obj.v.wrap)
        IN  /\ ret.err = "none"
            /\ \A j \in 1..Len(items) :
                /\ m.v[j][1] = Frozen(items[j][1])
                /\ NoList(m.v[j][1])
                /\ m.v[j][2] = IF items[j][2].t = "list" /\ options.use_tuple
                               THEN PyTuple(items[j][2].v) ELSE items[j][2]
    /\ (pc = "loaded" /\ obj.t = "wiremap" /\ FirstBad(obj.v.items) # 0) =>
        LET k == obj.v.items[FirstBad(obj.v.items)][1]
        IN  (k.t = "list" /\ ~HoldsMap(k)) =>
                (ret.err = "DuplicateKeyException" /\ ret.val = Frozen(k))

\* a map whose two keys are the array [[1]] twice has been decoded under the default
\* options, and has failed with DuplicateKeyException on the key ((1,),)
C8_Witness ==
    /\ pc = "loaded"
    /\ obj.t = "wiremap" /\ Len(obj.v.items) = 2
    /\ obj.v.items[1][1] = PyList(<<PyList(<<IntOf(1)>>)>>)
    /\ obj.v.items[2][1] = PyList(<<PyList(<<IntOf(1)>>)>>)
    /\ options = DefaultOptions
    /\ ret.err = "DuplicateKeyException"
    /\ ret.val = PyTuple(<<PyTuple(<<IntOf(1)>>)>>)

\* C9: whatever the input and however the source cuts it into chunks, one byte per
\* read included, load returns the value, or fails with the error, that it returns or
\* fails with when the source gives every read all the bytes asked for, and stops at
\* the same offset of the input.
C9_ShortReads ==
    pc = "loaded" =>
        LET whole == load(BytesIO(fp.buf), options)
        IN  /\ ret.err = whole.err
            /\ ret.val = whole.val
            /\ ret.st.pos = whole.st.pos

\* load has decoded 0xCD 0x01 0x01 from a source that returns one byte per read, the
\* two bytes of the payload in two reads, to 257
C9_Witness ==
    /\ pc = "loaded"
    /\ fp.buf = <<\hCD, \h01, \h01>> /\ fp.splits = {1, 2}
    /\ Len(ret.st.reads) = 3
    /\ ret.err = "none" /\ ret.val = IntOf(257)

\* C10: load of the empty input, and of every strict prefix of an input that load
\* decodes in full, fails with InsufficientDataException, not with another error nor
\* with a value; and load raises InsufficientDataException exactly when a read that
\* asked for at least one byte returns none, every read asking for at least one byte.
C10_InsufficientData ==
    /\ (pc = "loaded" /\ fp.buf = <<>>) => ret.err = "InsufficientDataException"
    /\ pc = "truncated" => ret.err = "InsufficientDataException"
    /\ pc \in {"loaded", "truncated"} =>
        LET reads == ret.st.reads
        IN  /\ \A i \in 1..Len(reads) : reads[i][1] # <<>>
            /\ \A i \in 1..Len(reads) :
                reads[i][2] = 0 => (i = Len(reads) /\ ret.err = "InsufficientDataException")
            /\ ret.err = "InsufficientDataException" =>
                (Len(reads) > 0 /\ reads[Len(reads)][2] = 0)

\* load has failed with InsufficientDataException on the first 2 of the 3 bytes of an
\* input that decodes to a map, when the read of the tag of the value returned no byte
C10_Witness ==
    /\ pc = "truncated"
    /\ obj.t = "dict" /\ Len(obj.v) = 1
    /\ Len(fp.buf) = 2
    /\ ret.err = "InsufficientDataException"
    /\ ret.st.reads[Len(ret.st.reads)] = <<<<1>>, 0>>

(***************************************************************************)
(* Properties of the streaming decoders, checked under SpecLoad.           *)
(***************************************************************************)
\* a streaming decode, by aload or by aloader.load, has ended
Streamed == pc \in {"aloaded", "aloader"}

\* C11: for every input, whole or cut into chunks of one byte, aload and aloader.load
\* return a value equal to the value load returns for the same bytes under the same
\* options, or fail with the kind of error load fails with.
C11_StreamingEquivalence ==
    Streamed =>
        LET buffered == load(fp, options)
        IN  /\ ret.err = buffered.err
            /\ ret.err = "none" => ret.val = buffered.val

(***************************************************************************)
(* The extent of an encoded value: where, by the format alone, the value   *)
(* whose tag stands at offset p of bs ends; -1 when bs ends before the     *)
(* value does, or when the tag is the reserved 0xC1.                       *)
(***************************************************************************)
\* the offset e, if bs reaches it
Within(bs, e) == IF e >= 0 /\ e <= Len(bs) THEN e ELSE 0 - 1

\* the number that the w bytes after offset p hold, or -1 if bs has not got them or
\* the number is more than the length of bs
Field(bs, p, w) ==
    IF p < 0 \/ p + w > Len(bs) THEN 0 - 1
    ELSE LET n == Norm(SubSeq(bs, p + 1, p + w))
         IN  IF BigLT(NatToBig(Len(bs)), n) THEN 0 - 1 ELSE BigToNat(n)

\* the end of a payload whose length stands on w bytes after the tag at offset p,
\* with extra bytes between the length and the payload
Payload(bs, p, w, extra) ==
    IF Field(bs, p + 1, w) < 0 THEN 0 - 1
    ELSE Within(bs, p + 1 + w + extra + Field(bs, p + 1, w))

RECURSIVE Extent(_, _)

\* the end of n values in a row, the first at offset p
RECURSIVE ExtentN(_, _, _)
ExtentN(bs, p, n) ==
    IF p < 0 THEN 0 - 1
    ELSE IF n = 0 THEN p
    ELSE ExtentN(bs, Extent(bs, p), n - 1)

\* the end of the per values of each of the entries counted on w bytes after the tag
Counted(bs, p, w, per) ==
    IF Field(bs, p + 1, w) < 0 THEN 0 - 1
    ELSE ExtentN(bs, p + 1 + w, per * Field(bs, p + 1, w))

Extent(bs, p) ==
    IF p < 0 \/ p >= Len(bs) THEN 0 - 1
    ELSE LET ic == bs[p + 1]
         IN  IF ic <= \h7F \/ ic >= \hE0 \/ ic \in {\hC0, \hC2, \hC3} THEN p + 1
             ELSE IF ic <= \h8F THEN ExtentN(bs, p + 1, 2 * (ic - \h80))
             ELSE IF ic <= \h9F THEN ExtentN(bs, p + 1, ic - \h90)
             ELSE IF ic <= \hBF THEN Within(bs, p + 1 + (ic - \hA0))
             ELSE IF ic = \hC1 THEN 0 - 1
             ELSE IF ic <= \hC6 THEN Payload(bs, p, 2 ^ (ic - \hC4), 0)
             ELSE IF ic <= \hC9 THEN Payload(bs, p, 2 ^ (ic - \hC7), 1)
             ELSE IF ic <= \hCB THEN Within(bs, p + 1 + 4 * (ic - \hC9))
             ELSE IF ic <= \hCF THEN Within(bs, p + 1 + 2 ^ (ic - \hCC))
             ELSE IF ic <= \hD3 THEN Within(bs, p + 1 + 2 ^ (ic - \hD0))
             ELSE IF ic <= \hD8 THEN Within(bs, p + 2 + 2 ^ (ic - \hD4))
             ELSE IF ic <= \hDB THEN Payload(bs, p, 2 ^ (ic - \hD9), 0)
             ELSE IF ic <= \hDD THEN Counted(bs, p, 2 ^ (ic - \hDB), 1)
             ELSE Counted(bs, p, 2 ^ (ic - \hDD), 2)

\* the offsets at which the calls of readexactly that got their bytes ended: a call
\* ends with the read that returns all the bytes it asks for
RECURSIVE ReadEnds(_, _)
ReadEnds(reads, pos) ==
    IF reads = <<>> THEN <<>>
    ELSE LET end == pos + reads[1][2]
         IN  (IF NatToBig(reads[1][2]) = reads[1][1] THEN <<end>> ELSE <<>>)
             \o ReadEnds(Tail(reads), end)

\* the offsets at which the chunks that hold a byte end, the first chunk at offset pos
RECURSIVE ChunkEnds(_, _)
ChunkEnds(chunks, pos) ==
    IF chunks = <<>> THEN <<>>
    ELSE LET end == pos + Len(chunks[1])
         IN  (IF chunks[1] # <<>> THEN <<end>> ELSE <<>>) \o ChunkEnds(Tail(chunks), end)

\* a streaming decode with an observer has ended
Observed == Streamed /\ options.observer

\* C12: in a streaming decode with an observer, the observer is called once after each
\* read of the decoder that got its bytes, with the bytes of that read, in the order of
\* the reads, so that the chunks it has been given, joined, are the bytes read so far;
\* and when the decode returns they are the whole encoding of the one value at the top
\* of the input.
C12_ObserverCompleteness ==
    Observed =>
        LET chunks == ret.st.obs
            ends   == ReadEnds(ret.st.reads, 0)
            last   == IF ends = <<>> THEN 0 ELSE ends[Len(ends)]
        IN  /\ ChunkEnds(chunks, 0) = ends
            /\ Concat(chunks) = SubSeq(fp.buf, 1, last)
            /\ ret.err = "none" =>
                /\ Concat(chunks) = SubSeq(fp.buf, 1, ret.st.pos)
                /\ Extent(fp.buf, 0) = ret.st.pos

\* the same of the decodes that met no ext value with a length field (tags 0xC7 to
\* 0xC9), which is where the streaming decoders return before the value is read
ObserverOffExt ==
    (Observed /\ \A i \in 1..Len(ret.st.tags) : ret.st.tags[i] \notin {\hC7, \hC8, \hC9})
        => C12_ObserverCompleteness

\* C13: when a streaming decode with an observer returns its value, the observer has
\* been given a chunk of no bytes exactly once, as the last of the chunks, after every
\* chunk of the value; no chunk of no bytes stands before it among the chunks of the
\* value, an empty string, binary or ext payload giving none.
C13_EndOfObjectMarker ==
    (Observed /\ ret.err = "none") =>
        LET chunks == ret.st.obs
        IN  /\ chunks # <<>>
            /\ chunks[Len(chunks)] = <<>>
            /\ \A i \in 1..(Len(chunks) - 1) : chunks[i] # <<>>

(***************************************************************************)
(* Strings that are not valid UTF-8, checked under SpecLoad.               *)
(***************************************************************************)
\* the code points whose UTF-8 encodings can be made of the bytes of the inputs of the
\* model: U+0001 and "A" (one byte), e-acute, and U+0340, U+0341, U+0351, U+0362 (two
\* bytes, 0xCD and then 0x80, 0x81, 0x91, 0xA2)
TextChars == {1, 65, 233, 832, 833, 849, 866}

\* the texts whose UTF-8 encoding is bs
TextsOf(bs) == {cps \in SeqsUpTo(TextChars, Len(bs)) : Utf8Encode(cps) = bs}

\* the tags of a string
StrTags == (\hA0..\hBF) \cup {\hD9, \hDA, \hDB}

\* the number of bytes of the header of a string: the tag and the length field
StrHeaderLen(ic) == IF ic <= \hBF THEN 1 ELSE 1 + 2 ^ (ic - \hD9)

\* the input starts with a string whose payload it holds in full
WholeString == fp.buf # <<>> /\ fp.buf[1] \in StrTags /\ Extent(fp.buf, 0) >= 0

\* the payload of that string: the bytes between its header and its end
StrPayload == SubSeq(fp.buf, StrHeaderLen(fp.buf[1]) + 1, Extent(fp.buf, 0))

\* C20: load of a string whose payload is not valid UTF-8 fails with
\* InvalidStringException when allow_invalid_utf8 is off, and returns the payload as
\* bytes, unchanged and of the announced length, when it is on; a payload that is
\* valid UTF-8 decodes to the text it encodes under both settings.
C20_InvalidUtf8 ==
    (pc = "loaded" /\ WholeString) =>
        IF TextsOf(StrPayload) # {}
        THEN ret.err = "none" /\ ret.val.t = "str" /\ ret.val.v \in TextsOf(StrPayload)
        ELSE IF options.allow_invalid_utf8
        THEN ret.err = "none" /\ ret.val = PyBytes(StrPayload)
        ELSE ret.err = "InvalidStringException"

\* load has returned the bytes 0xCD 0x01, a two-byte lead and no continuation byte, for
\* the string 0xA2 0xCD 0x01 with allow_invalid_utf8 on
C20_Witness ==
    /\ pc = "loaded"
    /\ fp.buf = <<\hA2, \hCD, \h01>>
    /\ options.allow_invalid_utf8
    /\ TextsOf(StrPayload) = {}
    /\ ret.err = "none" /\ ret.val = PyBytes(<<\hCD, \h01>>)

(***************************************************************************)
(* Properties of the registry and of the calls that use it, checked under  *)
(* SpecExt.                                                                *)
(***************************************************************************)
\* the class is in the class-to-code table under a code other than ext_type
UnderAnotherCode(cls, ext_type) ==
    \E i \in 1..Len(ext_class_to_type) :
        ext_class_to_type[i].cls = cls /\ ext_class_to_type[i].ext_type # ext_type

\* C14: a call of ext_serializable fails with ValueError when the code is below -128 or
\* above 127, when the code is registered already, to whatever class, and when the
\* class is registered already under another code; any other call succeeds and returns
\* the class it was given.
C14_RegistrationErrors ==
    [][pc' = "registered" =>
        LET call == obj'.v
        IN  IF \/ call.ext_type < 0 - 128
               \/ call.ext_type > 127
               \/ call.ext_type \in DOMAIN ext_type_to_class
               \/ UnderAnotherCode(call.cls, call.ext_type)
            THEN ret'.err = "ValueError"
            ELSE ret'.err = "none" /\ ret'.val = call.cls]_vars

\* a class registered under 16 has been refused under 127, a code in range that no
\* class has
C14_Witness ==
    /\ pc = "registered"
    /\ obj.v.ext_type = 127
    /\ 127 \notin DOMAIN ext_type_to_class
    /\ UnderAnotherCode(obj.v.cls, 127)
    /\ ret.err = "ValueError"

\* the entries of a table, by their place in registration order, that are registered
\* for the class of o or for a class it inherits from
Matching(table, o) ==
    {i \in 1..Len(table) : table[i].cls = o.t \/ table[i].cls \in Ancestors(o.t)}

\* the first byte of the native form of a value of the type of o
NativeTags(o) ==
    IF o.t = "None" THEN {\hC0}
    ELSE IF o.t = "bool" THEN {\hC2, \hC3}
    ELSE IF o.t = "int" THEN (\h00..\h7F) \cup (\hCC..\hD3) \cup (\hE0..\hFF)
    ELSE IF o.t = "float" THEN {\hCA, \hCB}
    ELSE IF o.t = "str" THEN (\hA0..\hBF) \cup {\hD9, \hDA, \hDB}
    ELSE IF o.t \in {"bytes", "bytearray"} THEN {\hC4, \hC5, \hC6}
    ELSE IF o.t \in {"list", "tuple"} THEN (\h90..\h9F) \cup {\hDC, \hDD}
    ELSE IF o.t \in {"dict", "OrderedDict"} THEN (\h80..\h8F) \cup {\hDE, \hDF}
    ELSE {}

\* bs is one ext value of the type code ext_type and of the payload data
IsExt(bs, ext_type, data) ==
    /\ Len(bs) >= 2
    /\ \/ bs[1] \in \hD4..\hD8 /\ SubSeq(bs, 2, Len(bs)) = <<(ext_type + 256) % 256>> \o data
       \/ bs[1] = \hC7 /\ SubSeq(bs, 2, Len(bs)) = <<Len(data), (ext_type + 256) % 256>> \o data

\* an object has been packed with classes registered
Packed == pc = "packed"

Square5 == Instance("Square", IntOf(5), IntOf(5))

Rectangle5 == Instance("Rectangle", IntOf(5), IntOf(5))

\* Rectangle is registered, under the code c, and Square, its subclass, is not
OnlyRectangle(c) ==
    /\ \E i \in 1..Len(custom) : custom[i] = [cls |-> "Rectangle", ext_type |-> c]
    /\ \A i \in 1..Len(custom) : custom[i].cls # "Square"

C17_MissingPackOperation ==
    Packed =>
        IF Matching(builtins, obj) # {}
        THEN PackbKind(builtins[SetMin(Matching(builtins, obj))].pk) = "none" =>
                ret.err = "UnsupportedTypeException"
        ELSE IF NativeTags(obj) # {} THEN TRUE
        ELSE IF Matching(custom, obj) # {}
        THEN PackbKind(obj.t) = "none" => ret.err = "UnsupportedTypeException"
        ELSE ret.err = "UnsupportedTypeException"

\* the same of the values that no handler registered for a native type matches
MissingPackbOffBuiltins == (Matching(builtins, obj) = {}) => C17_MissingPackOperation

\* a decode has ended, by load, aload or aloader.load
Ended == pc \in {"loaded", "aloaded", "aloader"}

\* the input is one whole ext value under a tag 0xD4 to 0xD8, which fixes the length of
\* its payload
OneFixExt ==
    fp.buf # <<>> /\ fp.buf[1] \in \hD4..\hD8 /\ Extent(fp.buf, 0) = Len(fp.buf)

\* its type code, the byte after the tag read as a signed number, and its payload
WireCode == IF fp.buf[2] >= 128 THEN fp.buf[2] - 256 ELSE fp.buf[2]

WireData == SubSeq(fp.buf, 3, Len(fp.buf))

\* a class is registered under the code c
HasPacker(c) == c \in DOMAIN packers \/ c \in DOMAIN ext_type_to_class

\* C18: when the ext_handlers of the call have an entry for the code of the ext value
\* read, the decode returns what that handler returns for the value, whether or not a
\* class is registered under the code; the unpackb of the registered class is called
\* only when ext_handlers has no entry for the code.  So it is in load, in aload and in
\* aloader.load.
C18_OverrideFirst ==
    (Ended /\ OneFixExt) =>
        IF WireCode \in DOMAIN options.ext_handlers
        THEN /\ ret.err = "none"
             /\ ret.val = CallHandler(options.ext_handlers[WireCode],
                                      [t |-> "Ext", v |-> [type |-> WireCode, data |-> WireData]])
        ELSE ret.err = "none" => ret.val.t # "handled"

\* the same of the streaming decoders alone
OverrideFirstInStreams == Streamed => C18_OverrideFirst

\* C19: the decode of an ext value whose code has no entry in ext_handlers and no class
\* registered fails with UnsupportedTypeException in load, in aload and in
\* aloader.load alike; none of them returns the code and the bytes instead.
C19_UnknownExtCode ==
    (Ended /\ OneFixExt /\ WireCode \notin DOMAIN options.ext_handlers /\ ~HasPacker(WireCode))
        => ret.err = "UnsupportedTypeException"

\* the same of load alone
UnknownExtCodeInLoad == pc = "loaded" => C19_UnknownExtCode

(***************************************************************************)
(* The containers a decode builds, checked under SpecDump.                 *)
(***************************************************************************)
\* v with the containers the options name and nothing else changed: every sequence a
\* tuple under use_tuple and a list without it, every map an OrderedDict under
\* use_ordered_dict and a dict without it, elements and entries in their order
RECURSIVE AsOptions(_, _)
AsOptions(v, opts) ==
    IF v.t \in {"list", "tuple"}
    THEN [t |-> IF opts.use_tuple THEN "tuple" ELSE "list",
          v |-> [i \in 1..Len(v.v) |-> AsOptions(v.v[i], opts)]]
    ELSE IF v.t \in {"dict", "OrderedDict"}
    THEN [t |-> IF opts.use_ordered_dict THEN "OrderedDict" ELSE "dict",
          v |-> [i \in 1..Len(v.v) |->
                    <<AsOptions(v.v[i][1], opts), AsOptions(v.v[i][2], opts)>>]]
    ELSE v

\* the same, but for the sequences that are keys of a map, or stand inside a key: these
\* are tuples whatever use_tuple says
RECURSIVE AsDecoded(_, _, _)
AsDecoded(v, opts, inKey) ==
    IF v.t \in {"list", "tuple"}
    THEN [t |-> IF inKey \/ opts.use_tuple THEN "tuple" ELSE "list",
          v |-> [i \in 1..Len(v.v) |-> AsDecoded(v.v[i], opts, inKey)]]
    ELSE IF v.t \in {"dict", "OrderedDict"}
    THEN [t |-> IF opts.use_ordered_dict THEN "OrderedDict" ELSE "dict",
          v |-> [i \in 1..Len(v.v) |->
                    <<AsDecoded(v.v[i][1], opts, TRUE), AsDecoded(v.v[i][2], opts, FALSE)>>]]
    ELSE v

\* C21: loads of the bytes of a value returns the value with, at every depth, every
\* array a tuple when use_tuple is set and a list when it is not, and every map an
\* OrderedDict when use_ordered_dict is set and a dict when it is not, the elements and
\* the entries in the order of the bytes.
C21_ContainerOptions ==
    (pc = "loaded" /\ InDomain(obj)) =>
        (ret.err = "none" /\ ret.val = AsOptions(obj, options))

\* C21, amended: the same of every array and map but the arrays that are a key of a
\* map or stand inside one; those decode to tuples under either value of use_tuple.
C21_ContainerOptionsOffKeys ==
    (pc = "loaded" /\ InDomain(obj)) =>
        (ret.err = "none" /\ ret.val = AsDecoded(obj, options, FALSE))

\* a tuple that holds a dict under a key that is a nested tuple has been packed and
\* decoded with use_ordered_dict and without use_tuple: to a list that holds an
\* OrderedDict whose key is still a tuple of an int and a tuple
C21_Witness ==
    /\ pc = "loaded"
    /\ obj.t = "tuple" /\ Len(obj.v) = 2
    /\ obj.v[1].t = "dict" /\ obj.v[2].t = "tuple"
    /\ options.use_ordered_dict /\ ~options.use_tuple
    /\ ret.err = "none"
    /\ ret.val.t = "list"
    /\ ret.val.v[1].t = "OrderedDict"
    /\ ret.val.v[1].v[1][1] = PyTuple(<<IntOf(1), PyTuple(<<>>)>>)
    /\ ret.val.v[2] = PyList(<<PyNone>>)

(***************************************************************************)
(* The handler modules mpk_*.py, checked under SpecMpk.                    *)
(***************************************************************************)
\* the native types the handler modules are written for
HandledTypes == {"complex", "set", "tuple", "bytearray", "OrderedDict"}

\* a handler is registered for the type of o
HasHandler(o) == \E i \in 1..Len(builtins) : builtins[i].cls = o.t

\* C22: dumps of a complex or of a set fails with UnsupportedTypeException when no
\* handler is registered for its type; when the handler module of its type has been
\* imported, dumps packs a complex, a set, a tuple, a bytearray and an OrderedDict, and
\* loads of the bytes returns a value of the same type that is equal to it.
C22_BuiltinExtensions ==
    /\ (pc = "packed" /\ obj.t \in {"complex", "set"} /\ ~HasHandler(obj))
        => ret.err = "UnsupportedTypeException"
    /\ (pc = "packed" /\ obj.t \in HandledTypes /\ HasHandler(obj))
        => ret.err = "none"
    /\ (pc = "loaded" /\ obj.t \in HandledTypes /\ HasHandler(obj))
        => (ret.err = "none" /\ ret.val.t = obj.t /\ ret.val.v = obj.v)

\* the part that holds: without a handler a complex and a set are not packed, and with
\* mpk_odict imported an OrderedDict makes the round trip
BuiltinExtensionsOfOdict ==
    /\ (pc = "packed" /\ obj.t \in {"complex", "set"} /\ ~HasHandler(obj))
        => ret.err = "UnsupportedTypeException"
    /\ (pc = "packed" /\ obj.t = "OrderedDict" /\ HasHandler(obj))
        => (ret.err = "none" /\ ret.out[1] = \hC7 /\ ret.out[3] = \h54)
    /\ (pc = "loaded" /\ obj.t = "OrderedDict" /\ HasHandler(obj))
        => (ret.err = "none" /\ ret.val = obj)

(***************************************************************************)
(* The end of the source in a streaming decode, checked under SpecLoad.    *)
(***************************************************************************)
\* the decode met no ext value with a length field (tags 0xC7 to 0xC9)
NoLengthExt == \A i \in 1..Len(ret.st.tags) : ret.st.tags[i] \notin {\hC7, \hC8, \hC9}

\* the source ends inside the value: load of the same bytes fails for want of data
EndsEarly == load(fp, options).err = "InsufficientDataException"

\* C23: when the source of a streaming decode ends in the middle of a value (after the
\* tag, inside a length, inside a payload, or before the last element of a container),
\* aload and aloader.load fail with InsufficientDataException, as load does on the
\* same bytes.
C23_StreamInsufficientData ==
    (Streamed /\ NoLengthExt /\ ret.st.tags # <<>> /\ EndsEarly)
        => ret.err = "InsufficientDataException"

\* what they do: the EOFError of readexactly comes out as it is, raised by the read
\* that found the source at its end
StreamEndsWithEOFError ==
    (Streamed /\ NoLengthExt) =>
        /\ EndsEarly <=> ret.err = "EOFError"
        /\ ret.err = "EOFError" => ret.st.reads[Len(ret.st.reads)][2] = 0
        /\ ret.err # "InsufficientDataException"

(***************************************************************************)
(* Where a decode stops on a bad key, checked under SpecLoad.              *)
(***************************************************************************)
KeyErrors == {"UnhashableKeyException", "DuplicateKeyException"}

\* the offset of the tag of the map of a wiremap in its input
MapAt(wrap) == IF wrap = "top" THEN 0 ELSE IF wrap = "element" THEN 1 ELSE 2

\* the offset at which the j-th key of that map ends, by the format alone
KeyEnd(wrap, j) == ExtentN(fp.buf, MapAt(wrap) + 1, 2 * j - 1)

\* the bytes from offset q to offset p are one whole value, and it decodes to the key k
\* (the arrays of a key are tuples)
IsKeyAt(q, p, k) ==
    /\ Extent(fp.buf, q) = p
    /\ Frozen(load(BytesIO(SubSeq(fp.buf, q + 1, p)), options).val) = k

\* C24: when a decoder fails with UnhashableKeyException or DuplicateKeyException, the
\* bytes it has read are the bytes up to the end of the key that is at fault, and no
\* byte of the value of that key: the source stands at the first byte of the value.
\* This holds of load, where the map is known entry by entry, and of load, aload and
\* aloader.load on every other input.
C24_KeyChecksBeforeValue ==
    /\ (pc = "loaded" /\ obj.t = "wiremap" /\ FirstBad(obj.v.items) # 0) =>
        /\ ret.err \in KeyErrors
        /\ ret.st.pos = KeyEnd(obj.v.wrap, FirstBad(obj.v.items))
        /\ ret.st.pos < Len(fp.buf)
    /\ (Decoded /\ ret.err \in KeyErrors) =>
        \E q \in 0..(ret.st.pos - 1) : IsKeyAt(q, ret.st.pos, ret.val)

\* aloader.load has failed with DuplicateKeyException on the map {1: True, 1: False},
\* one byte per read, after the 4 bytes that end with the second key, the byte of the
\* value False unread
C24_Witness ==
    /\ pc = "aloader"
    /\ fp.buf = <<\h82, \h01, \hC3, \h01, \hC2>> /\ fp.splits = {1, 2, 3, 4}
    /\ ret.err = "DuplicateKeyException"
    /\ ret.st.pos = 4
    /\ Len(ret.st.reads) = 4

(***************************************************************************)
(* The dispatch on the tag, checked under SpecTags.                        *)
(***************************************************************************)
\* what a decode came to: the type of the value, or the exception
Outcome == IF ret.err = "none" THEN ret.val.t ELSE ret.err

\* the outcomes the format allows for a value whose tag is ic, when the source holds
\* all of it: the types of its family and the errors of its family
Family(ic) ==
    IF ic <= \h7F \/ ic >= \hE0 \/ (\hCC <= ic /\ ic <= \hD3) THEN {"int"}
    ELSE IF ic <= \h8F \/ ic \in {\hDE, \hDF}
    THEN {IF options.use_ordered_dict THEN "OrderedDict" ELSE "dict"} \cup KeyErrors
    ELSE IF ic <= \h9F \/ ic \in {\hDC, \hDD}
    THEN {IF options.use_tuple THEN "tuple" ELSE "list"}
    ELSE IF ic <= \hBF \/ ic \in {\hD9, \hDA, \hDB}
    THEN {"str", IF options.allow_invalid_utf8 THEN "bytes" ELSE "InvalidStringException"}
    ELSE IF ic = \hC0 THEN {"None"}
    ELSE IF ic = \hC1 THEN {"ReservedCodeException"}
    ELSE IF ic \in {\hC2, \hC3} THEN {"bool"}
    ELSE IF ic <= \hC6 THEN {"bytes"}
    ELSE IF ic \in {\hCA, \hCB} THEN {"float"}
    ELSE IF pc = "loaded" THEN {"UnsupportedTypeException"}
    ELSE IF ic <= \hC9 THEN {"coroutine"}
    ELSE {"Ext", "handled"}

\* the w bytes after the tag
Operand(w) == SubSeq(fp.buf, 2, 1 + w)

\* C25: whatever the tag byte, load, aload and aloader.load never raise the 'Logic
\* error' of _fail; the outcome is one of the family of the tag (a map for 0x80-0x8F,
\* 0xDE, 0xDF; an array for 0x90-0x9F, 0xDC, 0xDD; a string for 0xA0-0xBF, 0xD9-0xDB; a
\* binary for 0xC4-0xC6; a float for 0xCA, 0xCB; ext data for 0xC7-0xC9, 0xD4-0xD8; the
\* reserved code for 0xC1), or the end of the source where the format says the value is
\* cut short; 0xC0 is None, 0xC2 False and 0xC3 True after the one byte; 0x00-0x7F and
\* 0xE0-0xFF are the ints 0..127 and -32..-1 after the one byte; 0xCC-0xCF are the
\* unsigned and 0xD0-0xD3 the signed int that the next 1, 2, 4, 8 bytes hold, most
\* significant first, after exactly those bytes.
C25_TagDispatch ==
    (Decoded /\ fp.buf # <<>>) =>
        LET ic == fp.buf[1]
        IN  /\ ret.err # "Logic error"
            /\ IF Extent(fp.buf, 0) < 0 /\ ic # \hC1 /\ ~(pc # "loaded" /\ ic \in {\hC7, \hC8, \hC9})
               THEN Outcome \in {"InsufficientDataException", "EOFError"} \cup Family(ic)
               ELSE Outcome \in Family(ic)
            /\ ic = \hC0 => (ret.val = PyNone /\ ret.st.pos = 1)
            /\ ic \in {\hC2, \hC3} => (ret.val = PyBool(ic = \hC3) /\ ret.st.pos = 1)
            /\ ic <= \h7F => (ret.val = IntOf(ic) /\ ret.st.pos = 1)
            /\ ic >= \hE0 => (ret.val = IntOf(ic - 256) /\ ret.st.pos = 1)
            /\ (\hCC <= ic /\ ic <= \hD3 /\ ret.err = "none") =>
                LET w == 2 ^ ((ic - \hCC) % 4)
                IN  /\ ret.st.pos = 1 + w
                    /\ StandsFor(Operand(w), ret.val.v)
                    /\ ret.val.v.neg <=> (ic >= \hD0 /\ fp.buf[2] >= \h80)

\* aload has decoded the tag 0xD1 followed by 0x80 0xFF to the int -32513 and stands
\* after the 3 bytes, with more bytes in the source
C25_Witness ==
    /\ pc = "aloaded"
    /\ Len(fp.buf) > 3
    /\ SubSeq(fp.buf, 1, 3) = <<\hD1, \h80, \hFF>>
    /\ ret.err = "none" /\ ret.val = IntOf(0 - 32513) /\ ret.st.pos = 3

(***************************************************************************)
(* Ext data with a length field in the streaming decoders, checked under   *)
(* SpecLoad.                                                               *)
(***************************************************************************)
LengthExtTags == {\hC7, \hC8, \hC9}

\* no coroutine object stands in v, at any depth
RECURSIVE NoCoroutine(_)
NoCoroutine(v) ==
    IF v.t = "coroutine" THEN FALSE
    ELSE IF v.t \in {"list", "tuple"} THEN \A i \in 1..Len(v.v) : NoCoroutine(v.v[i])
    ELSE IF v.t \in {"dict", "OrderedDict"}
    THEN \A i \in 1..Len(v.v) : NoCoroutine(v.v[i][1]) /\ NoCoroutine(v.v[i][2])
    ELSE TRUE

\* the input is one whole ext value with a length field
WholeLengthExt ==
    /\ fp.buf # <<>>
    /\ fp.buf[1] \in LengthExtTags
    /\ Extent(fp.buf, 0) = Len(fp.buf)

\* the same code and payload under the fixed tag of the length of the payload, 0xD4
\* to 0xD8 for 1, 2, 4, 8, 16 bytes; the empty input when the length has no fixed tag
FixedForm(bs) ==
    LET w    == 2 ^ (bs[1] - \hC7)
        body == SubSeq(bs, 2 + w, Len(bs))
        n    == Len(body) - 1
    IN  IF n \in {1, 2, 4, 8, 16}
        THEN <<\hD4 + (CHOOSE k \in 0..4 : 2 ^ k = n)>> \o body
        ELSE <<>>

\* the decoder that ran, on another input
SameDecoder(bs) ==
    mpload(Context(BytesIO(bs), options, IF pc = "aloaded" THEN "as_load" ELSE "as_loader"),
           Start)

\* C26: when aload or aloader.load returns, no value it returns is, or holds at any
\* depth, ext data left unread (a coroutine object); on an input that is one ext value
\* with a length field (tags 0xC7 to 0xC9) every byte of the value has been read, and
\* the outcome is that of the same decoder on the same code and payload under a fixed
\* tag 0xD4 to 0xD8.
C26_LengthExtAwaited ==
    Streamed =>
        /\ ret.err = "none" => NoCoroutine(ret.val)
        /\ WholeLengthExt =>
            /\ ret.st.pos = Len(fp.buf)
            /\ FixedForm(fp.buf) # <<>> =>
                /\ ret.err = SameDecoder(FixedForm(fp.buf)).err
                /\ ret.val = SameDecoder(FixedForm(fp.buf)).val

\* what they do: at a tag 0xC7 to 0xC9 the decode of the value ends after the tag,
\* with a coroutine object for its value, and the bytes of the value are taken for the
\* values that follow
LengthExtLeftUnread ==
    (Streamed /\ fp.buf # <<>> /\ fp.buf[1] \in LengthExtTags) =>
        (ret.err = "none" /\ ret.val = Coroutine([pos |-> 1]) /\ ret.st.pos = 1)


(***************************************************************************)
(* Streaming decodes run as tasks.  A coroutine of as_load.py or of        *)
(* as_loader.py gives up control at each await of fp.readexactly, and at   *)
(* no other place; between two awaits it runs alone.  A task is a decode   *)
(* in progress: its source f, its options, the module that decodes, the    *)
(* state st of its source, the read it awaits (want), and stack, the       *)
(* activations of _unpack_array and _unpack_map it is inside, each with    *)
(* the elements or items gathered so far.                                  *)
(***************************************************************************)
\* the read a task awaits: what it is for (k), its length n, and what the code keeps
\* across the await (a): the struct format, the kind of object a length is of, the
\* length or the type code of an extension
Want(k, n, a) == [k |-> k, n |-> n, a |-> a]

\* code = await _re(fp, 1, ...), the first line of _unpack
WantTag == Want("tag", <<1>>, "B")

\* aload(fp, **options) or aloader(fp, **options).load(), before its first await
NewTask(f, opts, drv) ==
    [f |-> f, opts |-> opts, drv |-> drv, st |-> Start, stack |-> <<>>,
     want |-> WantTag, done |-> FALSE, err |-> "none", val |-> PyNone]

\* the decode of a task ends: it returns v, or raises e
Finish(task, e, v) == [task EXCEPT !.done = TRUE, !.err = e, !.val = v]

\* the local l or d of a call of _unpack_array or _unpack_map, and its loop counter
Frame(k, length) ==
    [k |-> k, left |-> length, items |-> <<>>, haskey |-> FALSE, key |-> PyNone]

\* a call of _unpack has returned v to the loop of the innermost array or map (or to
\* the caller of the decode): the loop runs on to its next await
RECURSIVE Deliver(_, _)
Deliver(task, v) ==
    IF task.stack = <<>> THEN Finish(task, "none", v)
    ELSE
    LET top   == task.stack[Len(task.stack)]
        below == SubSeq(task.stack, 1, Len(task.stack) - 1)
        last  == BigDec(top.left) = <<>>
    IN  IF top.k = "array"
        THEN IF last
             THEN Deliver([task EXCEPT !.stack = below],
                          TupleOrList(Append(top.items, v), task.opts))
             ELSE [task EXCEPT !.stack = Append(below, [top EXCEPT !.items = Append(@, v),
                                                                   !.left = BigDec(@)]),
                               !.want = WantTag]
        ELSE IF ~top.haskey
        THEN LET k == IF v.t = "list" THEN _deep_list_to_tuple(v) ELSE v
             IN  IF ~Hashable(k) THEN Finish(task, "UnhashableKeyException", k)
                 ELSE IF KeyIn(k, top.items) THEN Finish(task, "DuplicateKeyException", k)
                 ELSE [task EXCEPT !.stack = Append(below, [top EXCEPT !.haskey = TRUE,
                                                                       !.key = k]),
                                   !.want = WantTag]
        ELSE IF last
        THEN Deliver([task EXCEPT !.stack = below],
                     IF task.opts.use_ordered_dict
                     THEN PyODict(Append(top.items, <<top.key, v>>))
                     ELSE PyDict(Append(top.items, <<top.key, v>>)))
        ELSE [task EXCEPT !.stack = Append(below,
                                           [top EXCEPT !.items = Append(@, <<top.key, v>>),
                                                       !.left = BigDec(@),
                                                       !.haskey = FALSE,
                                                       !.key = PyNone]),
                          !.want = WantTag]

\* _unpack_array and _unpack_map once the length is known: l = [] or d = {}, then the loop
Enter(task, k, length) ==
    IF length = <<>>
    THEN Deliver(task, IF k = "array" THEN TupleOrList(<<>>, task.opts)
                       ELSE IF task.opts.use_ordered_dict THEN PyODict(<<>>)
                       ELSE PyDict(<<>>))
    ELSE [task EXCEPT !.stack = Append(@, Frame(k, length)), !.want = WantTag]

\* _unpack after its first line, up to the next await
OnTag(task, code) ==
    LET ic == code[1]
        Nil(r) == IF r.err # "none" THEN Finish(task, r.err, r.val) ELSE Deliver(task, r.val)
    IN  IF (ic \div 32) * 32 = \hE0 THEN Deliver(task, StructUnpack(TRUE, code))
        ELSE IF ic <= \h7F THEN Deliver(task, StructUnpack(FALSE, code))
        ELSE IF \hCC <= ic /\ ic <= \hD3
        THEN [task EXCEPT !.want = Want("int", NatToBig(2 ^ ((ic - \hCC) % 4)),
                                        IntFormats[ic - \hCC + 1])]
        ELSE IF ic <= \h8F THEN Enter(task, "map", NatToBig(ic % 16))
        ELSE IF ic <= \h9F THEN Enter(task, "array", NatToBig(ic % 16))
        ELSE IF ic <= \hBF THEN [task EXCEPT !.want = Want("str", NatToBig(ic % 32), "B")]
        ELSE IF ic <= \hC3 THEN Nil(Reserved(code, task.st))
        ELSE IF ic <= \hC6
        THEN [task EXCEPT !.want = Want("len", NatToBig(2 ^ (ic - \hC4)), "bin")]
        ELSE IF ic <= \hC9 THEN Deliver(task, Coroutine(task.st))
        ELSE IF ic <= \hCB
        THEN [task EXCEPT !.want = Want("float", NatToBig(4 * (ic - \hC9)), "f")]
        ELSE IF ic <= \hD8
        THEN [task EXCEPT !.want = Want("exttype", <<1>>, NatToBig(2 ^ FixExtFind(ic)))]
        ELSE IF ic <= \hDB
        THEN [task EXCEPT !.want = Want("len", NatToBig(2 ^ (ic - \hD9)), "str")]
        ELSE IF ic <= \hDD
        THEN [task EXCEPT !.want = Want("len", NatToBig(2 ^ (ic - \hDB)), "array")]
        ELSE [task EXCEPT !.want = Want("len", NatToBig(2 ^ (ic - \hDD)), "map")]

\* lines 119-129 of _unpack_ext: the handler of the type, the class registered for it,
\* or the Ext itself
Resolve(task, ext) ==
    LET Made(r) == IF r.err # "none" THEN Finish(task, r.err, r.val)
                   ELSE Deliver(task, r.val)
    IN  IF ext.v.type \in DOMAIN task.opts.ext_handlers
        THEN Deliver(task, CallHandler(task.opts.ext_handlers[ext.v.type], ext))
        ELSE IF ext.v.type \in DOMAIN ext_type_to_class
        THEN Made(CallUnpackb(ext_type_to_class[ext.v.type], 1, ext.v.data, task.st))
        ELSE Deliver(task, ext)

\* the awaited read has returned data: the code from there to the next await
OnRead(task, data) ==
    LET w == task.want
    IN  IF w.k = "tag"
        THEN OnTag([task EXCEPT !.st.tags = Append(@, data[1])], data)
        ELSE IF w.k = "int" THEN Deliver(task, StructUnpack(w.a \in SignedFormats, data))
        ELSE IF w.k = "float"
        THEN Deliver(task, PyFloat(IF Len(data) = 4 THEN SingleToDouble(data) ELSE data))
        ELSE IF w.k = "len"
        THEN IF w.a \in {"array", "map"} THEN Enter(task, w.a, Norm(data))
             ELSE [task EXCEPT !.want = Want(w.a, Norm(data), "B")]
        ELSE IF w.k = "str"
        THEN LET Str(u) ==
                     IF u.ok THEN Deliver(task, PyStr(u.cps))
                     ELSE IF task.opts.allow_invalid_utf8 THEN Deliver(task, PyBytes(data))
                     ELSE Finish(task, "InvalidStringException", PyNone)
             IN  Str(Utf8Decode(data))
        ELSE IF w.k = "bin" THEN Deliver(task, PyBytes(data))
        ELSE IF w.k = "exttype"
        THEN [task EXCEPT !.want = Want("extdata", w.a, SmallInt(StructUnpack(TRUE, data).v))]
        ELSE Resolve(task, [t |-> "Ext", v |-> [type |-> w.a, data |-> data]])

\* a task runs from the await it is suspended at to its next await, or to its end
Step(task) ==
    LET Got(r) ==
            IF r.err # "none" THEN Finish([task EXCEPT !.st = r.st], r.err, r.val)
            ELSE OnRead([task EXCEPT !.st = r.st], r.val.v)
    IN  Got(_re(Context(task.f, task.opts, task.drv), task.st, task.want.n))

\* a fault: the locals of every call are those of the first task
OwnFirst(t) == 1

\* the task whose frames hold the locals (l, d, length, key) of the calls running in
\* task t: every call of a coroutine function has locals of its own
Own(t) == t

\* the inputs the tasks decode: [1, [None]]; a map with a duplicate key; {"A": [1, 2, 3]};
\* an integer cut short; a fixext 1; [b"\xff", 1.0]; a map keyed by a list
TaskWires ==
    {<<\h92, \h01, \h91, \hC0>>,
     <<\h82, \h01, \hC3, \h01, \hC2>>,
     <<\h81, \hA1, \h41, \h93, \h01, \h02, \h03>>,
     <<\hCD, \h01>>,
     <<\hD4, \h05, \h01>>,
     <<\hDC, \h00, \h02, \hC4, \h01, \hFF, \hCA, \h3F, \h80, \h00, \h00>>,
     <<\h81, \h91, \h90, \hD0, \hFF>>}

TaskDrivers == {"as_load", "as_loader"}

\* two receivers are created, each on a stream of its own
Spawn ==
    /\ pc = "start"
    /\ \E w1 \in TaskWires, w2 \in TaskWires, o1 \in StreamOptions, o2 \in StreamOptions,
          d1 \in TaskDrivers, d2 \in TaskDrivers :
        tasks' = <<NewTask(BytesIO(w1), o1, d1), NewTask(BytesIO(w2), o2, d2)>>
    /\ pc' = "running"
    /\ UNCHANGED <<obj, options, fp, ret, registry>>

\* the scheduler resumes a task whose read is ready
Resume ==
    /\ pc = "running"
    /\ \E t \in 1..Len(tasks) :
        /\ ~tasks[t].done
        /\ LET Ran(next) ==
                   tasks' = [[tasks EXCEPT ![t] = next] EXCEPT ![Own(t)].stack = next.stack]
           IN  Ran(Step([tasks[t] EXCEPT !.stack = tasks[Own(t)].stack]))
    /\ UNCHANGED <<pc, obj, options, fp, ret, registry>>

NextTasks == Spawn \/ Resume

SpecTasks == Init /\ [][NextTasks]_vars

(***************************************************************************)
(* C27                                                                     *)
(***************************************************************************)
\* what the decode of task t gives when it runs alone, from its first await to its end
Alone(t) == mpload(Context(tasks[t].f, tasks[t].opts, tasks[t].drv), Start)

\* C27: of two streaming decodes in progress at once, each on a source of its own, a
\* decode that has ended has returned the value, or raised the exception, that it
\* returns or raises when it runs alone, and has read and observed the same bytes,
\* however the scheduler interleaved the two.
C27_IndependentDecodes ==
    \A t \in 1..Len(tasks) :
        tasks[t].done =>
            /\ tasks[t].err = Alone(t).err
            /\ tasks[t].val = Alone(t).val
            /\ tasks[t].st = Alone(t).st

\* one decode has returned [1, [None]] while the other is suspended inside a map with
\* a key read and its value awaited
C27_Witness ==
    /\ Len(tasks) = 2
    /\ tasks[1].done /\ tasks[1].err = "none"
    /\ tasks[1].val = PyList(<<IntOf(1), PyList(<<PyNone>>)>>)
    /\ ~tasks[2].done
    /\ tasks[2].stack # <<>>
    /\ tasks[2].stack[1].haskey


(***************************************************************************)
(* C28                                                                     *)
(***************************************************************************)
\* reg.ext_class_to_type[cls]: the code last stored under the class
CodeOf(reg, cls) ==
    LET at == {i \in 1..Len(reg.ext_class_to_type) : reg.ext_class_to_type[i].cls = cls}
    IN  reg.ext_class_to_type[CHOOSE i \in at : \A j \in at : j <= i].ext_type

\* code c maps to class K exactly when K maps to c
Inverse(reg) ==
    /\ \A c \in DOMAIN reg.ext_type_to_class :
        /\ \E i \in 1..Len(reg.ext_class_to_type) :
            reg.ext_class_to_type[i].cls = reg.ext_type_to_class[c]
        /\ CodeOf(reg, reg.ext_type_to_class[c]) = c
    /\ \A i \in 1..Len(reg.ext_class_to_type) :
        LET c == CodeOf(reg, reg.ext_class_to_type[i].cls)
        IN  /\ c \in DOMAIN reg.ext_type_to_class
            /\ reg.ext_type_to_class[c] = reg.ext_class_to_type[i].cls

\* every registered code is a signed byte
InRange(reg) ==
    /\ \A c \in DOMAIN reg.ext_type_to_class : 0 - 128 <= c /\ c <= 127
    /\ \A i \in 1..Len(reg.ext_class_to_type) :
        0 - 128 <= reg.ext_class_to_type[i].ext_type
        /\ reg.ext_class_to_type[i].ext_type <= 127

\* C28: after every call of ext_serializable, accepted or rejected, the table from
\* codes to classes and the table from classes to codes are inverses of each other
\* and hold codes from -128 to 127 only, and a call that was rejected has left both
\* tables as they were.
C28_RegistryInvariant ==
    [][pc' = "registered" =>
        /\ Inverse(registry')
        /\ InRange(registry')
        /\ ret'.err # "none" =>
            /\ registry'.ext_type_to_class = registry.ext_type_to_class
            /\ registry'.ext_class_to_type = registry.ext_class_to_type]_vars

\* a class is registered under -128, and a second registration of it, under a code
\* that is free, has been rejected
C28_Witness ==
    /\ pc = "registered"
    /\ ret.err = "ValueError"
    /\ ret.val = "class registered"
    /\ DOMAIN ext_type_to_class = {0 - 128}
    /\ obj.v.ext_type = 16


(***************************************************************************)
(* Successive decodes from one source.  Two encoded values are written to  *)
(* a source one after the other, and load, aload or the load of one        *)
(* aloader is called on it twice, as the receivers of asyntest.py do.      *)
(***************************************************************************)
\* the values written, natives of every kind
SeqObjects ==
    {PyNone, IntOf(1), IntOf(300), PyStr(<<65, 66>>), PyBytes(<<1, 2>>),
     PyFloat(One), PyList(<<IntOf(1), PyList(<<>>)>>), PyTuple(<<>>),
     PyDict(<<<<IntOf(1), PyNone>>>>)}

\* what is written for each of them, and what _pack_ext writes for the object of a
\* registered class: the code 5 with payloads of 1 and of 3 bytes
Encodings ==
    {dumps(o, DefaultOptions).out : o \in SeqObjects}
    \cup {_pack_ext(5, <<1>>).out, _pack_ext(5, <<\h92, 2, 3>>).out}

\* the options of the two calls
SeqOptions == {DefaultOptions, [DefaultOptions EXCEPT !.use_tuple = TRUE, !.observer = TRUE]}

\* fp.write(dumps(v1)); fp.write(dumps(v2)); fp.seek(0): obj keeps the two byte strings
Write ==
    /\ pc = "start"
    /\ \E e1 \in Encodings, e2 \in Encodings :
        /\ obj' = PyTuple(<<PyBytes(e1), PyBytes(e2)>>)
        /\ \E splits \in {{}, 1..(Len(e1 \o e2) - 1)} : fp' = Source(e1 \o e2, splits)
    /\ ret' = Return(PyNone, Start)
    /\ pc' = "written"
    /\ UNCHANGED <<options, registry, tasks>>

\* the options of a call: any for the first, and for the second those of the first
Again == IF pc = "written" THEN SeqOptions ELSE {options}

\* a decode by drv from where the last one left the source
ReadOn(drv, opts) == mpload(Context(fp, opts, drv), [Start EXCEPT !.pos = ret.st.pos])

\* load(fp, **options), and again
LoadNext ==
    /\ pc \in {"written", "loaded1"}
    /\ ret.err = "none"
    /\ \E opts \in Again :
        /\ options' = opts
        /\ ret' = ReadOn("mp_load", opts)
    /\ pc' = IF pc = "written" THEN "loaded1" ELSE "loaded2"
    /\ UNCHANGED <<obj, fp, registry, tasks>>

\* await aload(sreader, **options), and again
AloadNext ==
    /\ pc \in {"written", "aloaded1"}
    /\ ret.err = "none"
    /\ \E opts \in Again :
        /\ options' = opts
        /\ ret' = ReadOn("as_load", opts)
    /\ pc' = IF pc = "written" THEN "aloaded1" ELSE "aloaded2"
    /\ UNCHANGED <<obj, fp, registry, tasks>>

\* await uart_aloader.load(), and again
AloaderNext ==
    /\ pc \in {"written", "aloader1"}
    /\ ret.err = "none"
    /\ \E opts \in Again :
        /\ options' = opts
        /\ ret' = ReadOn("as_loader", opts)
    /\ pc' = IF pc = "written" THEN "aloader1" ELSE "aloader2"
    /\ UNCHANGED <<obj, fp, registry, tasks>>

NextSeq == Write \/ LoadNext \/ AloadNext \/ AloaderNext

SpecSeq == Init /\ [][NextSeq]_vars

(***************************************************************************)
(* C29                                                                     *)
(***************************************************************************)
\* how many decodes the source has served
Served == IF pc \in {"loaded1", "aloaded1", "aloader1"} THEN 1
          ELSE IF pc \in {"loaded2", "aloaded2", "aloader2"} THEN 2 ELSE 0

\* the decoder that serves them
Decoder == IF pc \in {"loaded1", "loaded2"} THEN "mp_load"
           ELSE IF pc \in {"aloaded1", "aloaded2"} THEN "as_load" ELSE "as_loader"

\* where the k-th value written ends
EndOf(k) == IF k = 1 THEN Len(obj.v[1].v) ELSE Len(obj.v[1].v) + Len(obj.v[2].v)

\* the decode of the k-th value from a source that holds nothing else
DecodedAlone(k) == mpload(Context(BytesIO(obj.v[k].v), options, Decoder), Start)

\* the k-th decode has returned the k-th value and left the source at its end
Kth(k) ==
    /\ ret.st.pos = EndOf(k)
    /\ DecodedAlone(k).err = "none"
    /\ ret.val = DecodedAlone(k).val

\* C29: from a source that holds two encoded values one after the other, a decode
\* that returns has read the bytes of one value and no more, so the first call of
\* load, aload or aloader.load returns the first value and leaves the source at the
\* start of the second, and the second call returns the second and leaves it at the end.
C29_SuccessiveLoads ==
    (Served > 0 /\ ret.err = "none") => Kth(Served)

\* the same of load, and of the streaming decoders where no value begins with a tag
\* from 0xC7 to 0xC9
SuccessiveLoadsButLengthExt ==
    (/\ Served > 0
     /\ ret.err = "none"
     /\ Decoder = "mp_load" \/ \A k \in 1..2 : obj.v[k].v[1] \notin {\hC7, \hC8, \hC9})
        => Kth(Served)

\* the second load has returned the list written after a dict
SuccessiveLoadsSeen ==
    /\ pc = "loaded2"
    /\ ret.err = "none"
    /\ ret.val = PyList(<<IntOf(1), PyList(<<>>)>>)
    /\ obj.v[1].v = <<\h81, 1, \hC0>>


(***************************************************************************)
(* The entry points of the package.  umsgpack.dumps, dump, loads and load  *)
(* of __init__.py gather the keywords of the call in the dict options and  *)
(* call the function of the same name in mp_dump or mp_load.  A call is    *)
(* modelled with the positional arguments it passes (args) and the         *)
(* keywords it passes (kw): a function declared with n positional          *)
(* parameters and **options raises TypeError when it is given more than n  *)
(* positional arguments.                                                   *)
(***************************************************************************)
\* a call that passes no keyword
NoKeywords == DefaultOptions

\* mp_dump.dumps, declared def dumps(obj, **options)
mp_dump_dumps(args, kw) ==
    IF Len(args) # 1 THEN Raised("TypeError", <<>>) ELSE dumps(args[1], kw)

\* mp_dump.dump, declared def dump(obj, fp, **options): what it writes to fp
mp_dump_dump(args, kw) ==
    IF Len(args) # 2 THEN Raised("TypeError", <<>>) ELSE mpdump(args[1], kw)

\* mp_load.loads, declared def loads(s, **options)
mp_load_loads(args, kw) ==
    IF Len(args) # 1 THEN Raise("TypeError", Start) ELSE loads(args[1], kw)

\* mp_load.load, declared def load(fp, **options)
mp_load_load(args, kw) ==
    IF Len(args) # 1 THEN Raise("TypeError", Start) ELSE load(args[1], kw)

\* umsgpack.dumps(obj, **options): return mp_dump.dumps(obj, options)
umsgpack_dumps(o, options_) == mp_dump_dumps(<<o, options_>>, NoKeywords)

\* umsgpack.dump(obj, fp, **options): mp_dump.dump(obj, fp, options)
umsgpack_dump(o, f, options_) == mp_dump_dump(<<o, f, options_>>, NoKeywords)

\* umsgpack.loads(s, **options): return mp_load.loads(s, options)
umsgpack_loads(s, options_) == mp_load_loads(<<s, options_>>, NoKeywords)

\* umsgpack.load(fp, **options): return mp_load.load(fp, options)
umsgpack_load(f, options_) == mp_load_load(<<f, options_>>, NoKeywords)

\* the bytes of the doubles 2.5 and 0.1
TwoAndAHalf == <<\h40, \h04, 0, 0, 0, 0, 0, 0>>

Tenth == <<\h3F, \hB9, \h99, \h99, \h99, \h99, \h99, \h9A>>

\* the objects the entry points are given
PkgObjects ==
    {PyFloat(TwoAndAHalf), PyFloat(Tenth), PyFloat(One), PyNone, IntOf(1), PyStr(<<65>>),
     PyList(<<PyFloat(TwoAndAHalf), IntOf(1)>>), PyDict(<<<<IntOf(1), PyFloat(Tenth)>>>>)}

\* the keywords of a call that packs
PackOptions ==
    {DefaultOptions, [DefaultOptions EXCEPT !.force_float_precision = "single"],
     [DefaultOptions EXCEPT !.force_float_precision = "double"]}

\* umsgpack.dumps(obj, **options)
PkgDumps ==
    /\ pc = "start"
    /\ \E o \in PkgObjects, opts \in PackOptions :
        /\ obj' = o
        /\ options' = opts
        /\ ret' = umsgpack_dumps(o, opts)
    /\ pc' = "pkg.dumps"
    /\ UNCHANGED <<fp, registry, tasks>>

\* umsgpack.dump(obj, fp, **options), fp a fresh BytesIO
PkgDump ==
    /\ pc = "start"
    /\ \E o \in PkgObjects, opts \in PackOptions :
        /\ obj' = o
        /\ options' = opts
        /\ ret' = umsgpack_dump(o, fp, opts)
        /\ fp' = BytesIO(ret'.out)
    /\ pc' = "pkg.dump"
    /\ UNCHANGED <<registry, tasks>>

\* umsgpack.loads(s, **options)
PkgLoads ==
    /\ pc = "start"
    /\ \E w \in Fixtures, opts \in LoadOptions :
        /\ fp' = BytesIO(w)
        /\ options' = opts
        /\ ret' = umsgpack_loads(w, opts)
    /\ pc' = "pkg.loads"
    /\ UNCHANGED <<obj, registry, tasks>>

\* umsgpack.load(fp, **options)
PkgLoad ==
    /\ pc = "start"
    /\ \E w \in Fixtures, opts \in LoadOptions :
        /\ fp' = BytesIO(w)
        /\ options' = opts
        /\ ret' = umsgpack_load(fp', opts)
    /\ pc' = "pkg.load"
    /\ UNCHANGED <<obj, registry, tasks>>

\* mp_dump.dumps(obj, **options), called as it is declared
EngineDumps ==
    /\ pc = "start"
    /\ \E o \in PkgObjects, opts \in PackOptions :
        /\ obj' = o
        /\ options' = opts
        /\ ret' = mp_dump_dumps(<<o>>, opts)
    /\ pc' = "mp_dump.dumps"
    /\ UNCHANGED <<fp, registry, tasks>>

NextPkg == PkgDumps \/ PkgDump \/ PkgLoads \/ PkgLoad \/ EngineDumps

SpecPkg == Init /\ [][NextPkg]_vars

(***************************************************************************)
(* C30                                                                     *)
(***************************************************************************)
\* C30: a call of dumps, dump, loads or load of the package ends as the engine ends
\* when it is given the object or the source and the keywords of the call, all of them
\* and unchanged, and a call without keywords as the engine ends under the defaults;
\* dumps of a float under force_float_precision = "single" is the tag 0xCA and 4
\* bytes, and under "double" the tag 0xCB and 8 bytes.
C30_OptionsDelivered ==
    /\ pc \in {"pkg.dumps", "pkg.dump"} =>
        /\ ret = mpdump(obj, options)
        /\ (obj.t = "float" /\ options.force_float_precision = "single") =>
            ret.err = "none" /\ Len(ret.out) = 5 /\ ret.out[1] = \hCA
        /\ (obj.t = "float" /\ options.force_float_precision = "double") =>
            ret.err = "none" /\ Len(ret.out) = 9 /\ ret.out[1] = \hCB
    /\ pc \in {"pkg.loads", "pkg.load"} =>
        ret = mpload(Context(fp, options, "mp_load"), Start)

\* every call of the four entry points ends with TypeError, whatever it is given
PackageCallsRaise ==
    pc \in {"pkg.dumps", "pkg.dump", "pkg.loads", "pkg.load"} => ret.err = "TypeError"

\* the engine, called with the keywords as keywords, packs a float as they say
EngineTakesKeywords ==
    (pc = "mp_dump.dumps" /\ obj.t = "float") =>
        /\ ret.err = "none"
        /\ ret.out[1] = IF options.force_float_precision = "single" THEN \hCA ELSE \hCB
        /\ Len(ret.out) = IF options.force_float_precision = "single" THEN 5 ELSE 9

====
